---- MODULE Spec2Model ----
(***************************************************************************)
(* Model of the rst package: ViewList / StringList (stringlist.go).        *)
(*                                                                         *)
(* A Go slice is a header (array, offset, length, capacity) over a backing *)
(* array.  Slicing shares the backing array, append writes in place while  *)
(* the capacity suffices and moves to a fresh array otherwise.  The heap   *)
(* of backing arrays is modelled explicitly, because the views of the      *)
(* package are slices of each other's arrays.                              *)
(*                                                                         *)
(* A text is a sequence of one-character strings; "" is << >>.             *)
(* A run-time panic ends the program: `panicked` becomes TRUE and no       *)
(* further operation is taken.                                             *)
(***************************************************************************)
EXTENDS Integers, Sequences, FiniteSets, TLC

\* ------------------------------------------------------------------------
\* Bounds of the model
\* ------------------------------------------------------------------------
\* longest initial line list of the root view
MaxLen == 3
\* number of views (the root and the children created from it)
MaxViews == 3
\* number of operations called on the views of one run, the slicing that
\* creates a view not counted
MaxOps == 2
\* longest list handed to InsertItemsSlice / Extend
MaxOther == 2

\* ------------------------------------------------------------------------
\* Values
\* ------------------------------------------------------------------------
NoView == 0
EmptyText == << >>
\* the lines of the root: data := []string{"a", "b", "c", ...}
RootLines == << <<"a">>, <<"b">>, <<"c">>, <<"d">>, <<"e">> >>
\* the lines of the list handed to InsertItemsSlice / Extend
OtherLines == << <<"i">>, <<"j">>, <<"k">>, <<"l">> >>
\* the line written by SetItem / InsertItem / AppendItem
NewLine == <<"x">>
RootSource == "s"
OtherSource == "t"
NewSource == "d"
NewOffset == 1

\* ViewListItem{source, offset}; the zero value is ViewListItem{}
ViewListItem(source, offset) == [source |-> source, offset |-> offset]
ZeroItem == ViewListItem("", 0)

\* ------------------------------------------------------------------------
\* Go slices over a heap of backing arrays
\* ------------------------------------------------------------------------
\* the nil slice
NilSlice == [arr |-> 0, off |-> 0, len |-> 0, cap |-> 0]

\* element sizes in bytes (string header, struct{string; int}) on 64 bit
DataElemSize == 16
ItemElemSize == 24

\* size classes of the allocator that the capacities of the model can reach
SizeClasses == <<8, 16, 32, 48, 64, 80, 96, 112, 128, 144, 160, 176, 192, 208,
                 224, 240, 256, 288, 320, 352, 384, 416, 448, 480, 512, 576,
                 640, 704, 768, 896, 1024>>

\* the smallest size class from the k-th on that holds `size` bytes
RECURSIVE ClassFrom(_, _)
ClassFrom(k, size) ==
    IF k > Len(SizeClasses) THEN size
    ELSE IF SizeClasses[k] >= size THEN SizeClasses[k]
    ELSE ClassFrom(k + 1, size)

RoundUpSize(size) == ClassFrom(1, size)

\* capacity of the array that append allocates when `need` elements do not
\* fit into `oldcap` (runtime growslice: double, or the needed length when
\* that is more, rounded up to the allocator's size class)
GrowCap(oldcap, need, elemsize) ==
    LET newcap == IF need > 2 * oldcap THEN need ELSE 2 * oldcap
    IN RoundUpSize(newcap * elemsize) \div elemsize

\* the elements of slice s, as a sequence
Elems(mem, s) == [k \in 1..s.len |-> mem[s.arr][s.off + k]]

\* s[lo:hi] is legal when 0 <= lo <= hi <= cap(s)
SliceOK(s, lo, hi) == 0 <= lo /\ lo <= hi /\ hi <= s.cap
SubSlice(s, lo, hi) ==
    [arr |-> s.arr, off |-> s.off + lo, len |-> hi - lo, cap |-> s.cap - lo]

\* s[i] is legal when 0 <= i < len(s)
IndexOK(s, i) == 0 <= i /\ i < s.len

\* s[i] = x
Store(mem, s, i, x) == [mem EXCEPT ![s.arr][s.off + i + 1] = x]

\* the array that append allocates, of capacity nc, and the slice over it
Grown(mem, s, elems, zero, nc) ==
    [mem |-> Append(mem, [j \in 1..nc |->
                            IF j <= s.len THEN mem[s.arr][s.off + j]
                            ELSE IF j <= s.len + Len(elems)
                            THEN elems[j - s.len]
                            ELSE zero]),
     s |-> [arr |-> Len(mem) + 1, off |-> 0, len |-> s.len + Len(elems),
            cap |-> nc]]

\* append(s, elems...): the heap and the slice afterwards
GoAppend(mem, s, elems, zero, elemsize) ==
    IF s.len + Len(elems) <= s.cap
    THEN [mem |-> IF Len(elems) = 0 THEN mem
                  ELSE [mem EXCEPT ![s.arr] =
                          [j \in 1..Len(@) |->
                              IF j > s.off + s.len
                                 /\ j <= s.off + s.len + Len(elems)
                              THEN elems[j - s.off - s.len] ELSE @[j]]],
          s |-> [s EXCEPT !.len = @ + Len(elems)]]
    ELSE Grown(mem, s, elems, zero,
               GrowCap(s.cap, s.len + Len(elems), elemsize))

\* copy(dst, src) where src is given by its elements, read before the write
GoCopy(mem, dst, elems) ==
    IF Len(elems) = 0 \/ dst.len = 0 THEN mem
    ELSE [mem EXCEPT ![dst.arr] =
            [j \in 1..Len(@) |->
                IF j > dst.off /\ j <= dst.off + dst.len
                   /\ j <= dst.off + Len(elems)
                THEN elems[j - dst.off] ELSE @[j]]]

\* a slice literal []T{...}: a fresh array of exactly that length
GoLiteral(mem, elems) ==
    IF Len(elems) = 0
    THEN [mem |-> mem, s |-> NilSlice]
    ELSE [mem |-> Append(mem, elems),
          s |-> [arr |-> Len(mem) + 1, off |-> 0, len |-> Len(elems),
                 cap |-> Len(elems)]]

\* a % b of Go (truncated division); b = 0 panics and is tested by the caller
GoMod(a, b) == IF a >= 0 THEN a % b ELSE -((-a) % b)

\* ------------------------------------------------------------------------
\* The program state handed through the operations:
\*   data   heap of []string backing arrays
\*   items  heap of []ViewListItem backing arrays
\*   views  the ViewList objects; a *ViewList is an index into views
\*   panic  a run-time panic has happened
\* ------------------------------------------------------------------------
Panic(H) == [H EXCEPT !.panic = TRUE]

\* type ViewList struct { data; items; parent; parentOffset }
ViewList(data, items, parent, parentOffset) ==
    [data |-> data, items |-> items, parent |-> parent,
     parentOffset |-> parentOffset]

\* the lines and the (source, offset) pairs of a view
Lines(H, v) == Elems(H.data, H.views[v].data)
Items(H, v) == Elems(H.items, H.views[v].items)

\* v.data = <result r of an append>;  v.items = <result r of an append>
SetData(H, v, r) == [H EXCEPT !.data = r.mem, !.views[v].data = r.s]
SetItems(H, v, r) == [H EXCEPT !.items = r.mem, !.views[v].items = r.s]

\* for i, _ := range initlist { v.items = append(v.items, ViewListItem{source, i}) }
RECURSIVE InitItems(_, _, _, _)
InitItems(r, source, i, n) ==
    IF i >= n THEN r
    ELSE InitItems(GoAppend(r.mem, r.s, <<ViewListItem(source, i)>>, ZeroItem,
                            ItemElemSize),
                   source, i + 1, n)

\* the end of ViewList.Init: v.items is r.s; panic("data mismatch")
InitCheck(H, initlist, r, parent, parentOffset) ==
    [H |-> IF initlist.len # r.s.len THEN Panic([H EXCEPT !.items = r.mem])
           ELSE [H EXCEPT !.items = r.mem],
     view |-> ViewList(initlist, r.s, parent, parentOffset)]

\* ViewList.Init on a fresh ViewList{}: the state and the view built
Init_(H, initlist, source, items, parent, parentOffset) ==
    InitCheck(H, initlist,
              IF items.arr = 0
              THEN InitItems([mem |-> H.items, s |-> NilSlice], source, 0,
                             initlist.len)
              ELSE [mem |-> H.items, s |-> items],
              parent, parentOffset)

\* the view built by Init becomes the last element of views
AddView(r) ==
    IF r.H.panic THEN r.H ELSE [r.H EXCEPT !.views = Append(@, r.view)]

\* ViewList.Length
Length(H, v) == H.views[v].data.len

\* ViewList.GetItem: the text and the error
GetItem(H, v, index) ==
    IF index < H.views[v].data.len /\ index >= 0
    THEN [text |-> Lines(H, v)[index + 1], err |-> "nil"]
    ELSE [text |-> EmptyText, err |-> "IndexError"]

\* ViewList.Contains
Contains(H, v, item) == \E k \in 1..Length(H, v) : Lines(H, v)[k] = item

\* ViewList.GetItemsSlice: the new view becomes the last element of views
GetItemsSlice(H, v, start, stop) ==
    IF ~SliceOK(H.views[v].data, start, stop) THEN Panic(H)
    ELSE AddView(Init_(H, SubSlice(H.views[v].data, start, stop), "",
                       H.views[v].items, v, start))

\* SetItem without the call on the parent: v.data[index] = item only
SetItemLocal(H, v, index, item) ==
    IF ~IndexOK(H.views[v].data, index) THEN Panic(H)
    ELSE [H EXCEPT !.data = Store(@, H.views[v].data, index, item)]

\* ViewList.SetItem
RECURSIVE SetItem(_, _, _, _)
SetItem(H, v, index, item) ==
    IF ~IndexOK(H.views[v].data, index) THEN Panic(H)
    ELSE IF H.views[v].parent # NoView
    THEN SetItem([H EXCEPT !.data = Store(@, H.views[v].data, index, item)],
                 H.views[v].parent, index + H.views[v].parentOffset, item)
    ELSE [H EXCEPT !.data = Store(@, H.views[v].data, index, item)]

\* v.data = append(v.data[:lo], v.data[hi:]...)
CutData(H, v, lo, hi) ==
    IF H.panic THEN H
    ELSE IF ~SliceOK(H.views[v].data, 0, lo)
            \/ ~SliceOK(H.views[v].data, hi, H.views[v].data.len)
    THEN Panic(H)
    ELSE SetData(H, v,
                 GoAppend(H.data, SubSlice(H.views[v].data, 0, lo),
                          Elems(H.data, SubSlice(H.views[v].data, hi,
                                                 H.views[v].data.len)),
                          EmptyText, DataElemSize))

\* v.items = append(v.items[:lo], v.items[hi:]...)
CutItems(H, v, lo, hi) ==
    IF H.panic THEN H
    ELSE IF ~SliceOK(H.views[v].items, 0, lo)
            \/ ~SliceOK(H.views[v].items, hi, H.views[v].items.len)
    THEN Panic(H)
    ELSE SetItems(H, v,
                  GoAppend(H.items, SubSlice(H.views[v].items, 0, lo),
                           Elems(H.items, SubSlice(H.views[v].items, hi,
                                                   H.views[v].items.len)),
                           ZeroItem, ItemElemSize))

\* ViewList.DeleteItemsSlice
RECURSIVE DeleteItemsSlice(_, _, _, _)
\* if v.parent != nil { v.parent.DeleteItemsSlice(start+v.parentOffset, ...) }
DeleteSliceUp(H, v, start, stop) ==
    IF H.panic \/ H.views[v].parent = NoView THEN H
    ELSE DeleteItemsSlice(H, H.views[v].parent,
                          start + H.views[v].parentOffset,
                          stop + H.views[v].parentOffset)

DeleteItemsSlice(H, v, start, stop) ==
    DeleteSliceUp(CutItems(CutData(H, v, start, stop), v, start, stop),
                  v, start, stop)

\* ViewList.DeleteItem
RECURSIVE DeleteItem(_, _, _)
\* if v.parent != nil { v.parent.DeleteItem(index + v.parentOffset) }
DeleteUp(H, v, index) ==
    IF H.panic \/ H.views[v].parent = NoView THEN H
    ELSE DeleteItem(H, H.views[v].parent, index + H.views[v].parentOffset)

DeleteItem(H, v, index) ==
    DeleteUp(CutItems(CutData(H, v, index, index + 1), v, index, index + 1),
             v, index)

\* copy(v.data[i+1:], v.data[i:]); v.data[i] = item, where v.data is r.s, the
\* result of append(v.data, "")
ShiftData(H, v, i, item, r) ==
    IF ~SliceOK(r.s, i + 1, r.s.len) \/ ~SliceOK(r.s, i, r.s.len)
    THEN Panic(SetData(H, v, r))
    ELSE [SetData(H, v, r) EXCEPT !.data =
            Store(GoCopy(r.mem, SubSlice(r.s, i + 1, r.s.len),
                         Elems(r.mem, SubSlice(r.s, i, r.s.len))),
                  r.s, i, item)]

\* v.data = append(v.data, ""); copy(v.data[i+1:], v.data[i:]); v.data[i] = item
OpenData(H, v, i, item) ==
    IF H.panic THEN H
    ELSE ShiftData(H, v, i, item,
                   GoAppend(H.data, H.views[v].data, <<EmptyText>>, EmptyText,
                            DataElemSize))

\* copy(v.items[i+1:], v.items[i:]); v.items[i] = item, where v.items is r.s,
\* the result of append(v.items, ViewListItem{})
ShiftItems(H, v, i, item, r) ==
    IF ~SliceOK(r.s, i + 1, r.s.len) \/ ~SliceOK(r.s, i, r.s.len)
    THEN Panic(SetItems(H, v, r))
    ELSE [SetItems(H, v, r) EXCEPT !.items =
            Store(GoCopy(r.mem, SubSlice(r.s, i + 1, r.s.len),
                         Elems(r.mem, SubSlice(r.s, i, r.s.len))),
                  r.s, i, item)]

\* v.items = append(v.items, ViewListItem{}); copy(v.items[i+1:], v.items[i:]);
\* v.items[i] = ViewListItem{source, offset}
OpenItems(H, v, i, item) ==
    IF H.panic THEN H
    ELSE ShiftItems(H, v, i, item,
                    GoAppend(H.items, H.views[v].items, <<ZeroItem>>,
                             ZeroItem, ItemElemSize))

\* the index taken modulo the length before the insert
WrapIndexBefore(len, i) == GoMod(len + i, IF len > 1 THEN len - 1 ELSE len)

\* index := (len(v.data) + i) % len(v.data)
WrapIndex(len, i) == GoMod(len + i, len)

\* ViewList.InsertItem
RECURSIVE InsertItem(_, _, _, _, _, _)
\* if v.parent != nil { index := ...; v.parent.InsertItem(index+v.parentOffset, ...) }
InsertUp(H, v, i, item, source, offset) ==
    IF H.panic \/ H.views[v].parent = NoView THEN H
    ELSE InsertItem(H, H.views[v].parent,
                    WrapIndex(H.views[v].data.len, i)
                        + H.views[v].parentOffset,
                    item, source, offset)

\* InsertItem without the check of source
InsertItemAnySource(H, v, i, item, source, offset) ==
    InsertUp(OpenItems(OpenData(H, v, i, item), v, i,
                       ViewListItem(source, offset)),
             v, i, item, source, offset)

InsertItem(H, v, i, item, source, offset) ==
    IF source = "" THEN Panic(H)
    ELSE InsertUp(OpenItems(OpenData(H, v, i, item), v, i,
                            ViewListItem(source, offset)),
                  v, i, item, source, offset)

\* append(v.data[:i], inner...), inner the result of
\* append(vl.data, v.data[i:]...)
SpliceDataOuter(H, v, i, inner) ==
    SetData(H, v, GoAppend(inner.mem, SubSlice(H.views[v].data, 0, i),
                           Elems(inner.mem, inner.s), EmptyText,
                           DataElemSize))

\* v.data = append(v.data[:i], append(vl.data, v.data[i:]...)...)
SpliceData(H, v, i, vl) ==
    IF H.panic THEN H
    ELSE IF ~SliceOK(H.views[v].data, 0, i)
            \/ ~SliceOK(H.views[v].data, i, H.views[v].data.len)
    THEN Panic(H)
    ELSE SpliceDataOuter(H, v, i,
             GoAppend(H.data, vl.data,
                      Elems(H.data, SubSlice(H.views[v].data, i,
                                             H.views[v].data.len)),
                      EmptyText, DataElemSize))

\* append(v.items[:i], inner...), inner the result of
\* append(vl.items, v.items[i:]...)
SpliceItemsOuter(H, v, i, inner) ==
    SetItems(H, v, GoAppend(inner.mem, SubSlice(H.views[v].items, 0, i),
                            Elems(inner.mem, inner.s), ZeroItem,
                            ItemElemSize))

\* v.items = append(v.items[:i], append(vl.items, v.items[i:]...)...)
SpliceItems(H, v, i, vl) ==
    IF H.panic THEN H
    ELSE IF ~SliceOK(H.views[v].items, 0, i)
            \/ ~SliceOK(H.views[v].items, i, H.views[v].items.len)
    THEN Panic(H)
    ELSE SpliceItemsOuter(H, v, i,
             GoAppend(H.items, vl.items,
                      Elems(H.items, SubSlice(H.views[v].items, i,
                                              H.views[v].items.len)),
                      ZeroItem, ItemElemSize))

\* ViewList.InsertItemsSlice (vl is passed by value)
RECURSIVE InsertItemsSlice(_, _, _, _)
\* if v.parent != nil { index := ...; v.parent.InsertItemsSlice(index+v.parentOffset, vl) }
InsertSliceUp(H, v, i, vl) ==
    IF H.panic \/ H.views[v].parent = NoView THEN H
    ELSE IF H.views[v].data.len = 0 THEN Panic(H)
    ELSE InsertItemsSlice(H, H.views[v].parent,
                          WrapIndex(H.views[v].data.len, i)
                              + H.views[v].parentOffset,
                          vl)

InsertItemsSlice(H, v, i, vl) ==
    InsertSliceUp(SpliceItems(SpliceData(H, v, i, vl), v, i, vl), v, i, vl)

\* v.data = append(v.data, elems...); v.items = append(v.items, its...)
AppendLocal(H, v, elems, its) ==
    IF H.panic THEN H
    ELSE SetItems(SetData(H, v, GoAppend(H.data, H.views[v].data, elems,
                                         EmptyText, DataElemSize)),
                  v, GoAppend(H.items, H.views[v].items, its, ZeroItem,
                              ItemElemSize))

\* v.data = append(v.data, other.data...); v.items = append(v.items, other.items...)
ExtendLocal(H, v, other) ==
    AppendLocal(H, v, Elems(H.data, other.data), Elems(H.items, other.items))

\* ViewList.Extend (other is passed by value)
Extend(H, v, other) ==
    ExtendLocal(IF H.views[v].parent # NoView
                THEN InsertItemsSlice(H, H.views[v].parent,
                                      H.views[v].data.len
                                          + H.views[v].parentOffset,
                                      other)
                ELSE H,
                v, other)

\* ViewList.AppendItemsSlice
AppendItemsSlice(H, v, vl) == Extend(H, v, vl)

\* ViewList.AppendItem
AppendItem(H, v, item, source, offset) ==
    AppendLocal(IF H.views[v].parent # NoView
                THEN InsertItem(H, H.views[v].parent,
                                H.views[v].data.len + H.views[v].parentOffset,
                                item, source, offset)
                ELSE H,
                v, <<item>>, <<ViewListItem(source, offset)>>)

\* ViewList.Pop: the state and the text returned
RECURSIVE Pop(_, _, _)
\* if v.parent != nil { index := ...; v.parent.Pop(index + v.parentOffset) }
PopUp(H, v, i) ==
    IF H.views[v].parent = NoView THEN H
    ELSE IF H.views[v].data.len = 0 THEN Panic(H)
    ELSE Pop(H, H.views[v].parent,
             WrapIndex(H.views[v].data.len, i) + H.views[v].parentOffset).H

\* result := v.data[i]; v.data = append(v.data[:i], v.data[i+1:]...)
PopData(H, v, i) ==
    IF H.panic THEN [H |-> H, result |-> EmptyText]
    ELSE IF ~IndexOK(H.views[v].data, i)
    THEN [H |-> Panic(H), result |-> EmptyText]
    ELSE [H |-> CutData(H, v, i, i + 1), result |-> Lines(H, v)[i + 1]]

Pop(H, v, i) == PopData(CutItems(PopUp(H, v, i), v, i, i + 1), v, i)

\* TrimStart without v.parentOffset += n
TrimStartKeep(H, v, n) ==
    IF n > H.views[v].data.len THEN [H |-> H, err |-> "IndexError"]
    ELSE IF n < 0 THEN [H |-> H, err |-> "IndexError"]
    ELSE [H |-> [H EXCEPT
                   !.views[v].data = SubSlice(@, n, @.len),
                   !.views[v].items = SubSlice(@, n, @.len)],
          err |-> "nil"]

\* TrimStart with v.parentOffset = n for v.parentOffset += n
TrimStartSet(H, v, n) ==
    IF n > H.views[v].data.len THEN [H |-> H, err |-> "IndexError"]
    ELSE IF n < 0 THEN [H |-> H, err |-> "IndexError"]
    ELSE [H |-> [H EXCEPT
                   !.views[v].data = SubSlice(@, n, @.len),
                   !.views[v].items = SubSlice(@, n, @.len),
                   !.views[v].parentOffset =
                        IF H.views[v].parent # NoView THEN n ELSE @],
          err |-> "nil"]

\* TrimStart that removes the lines from the parent too
TrimStartUp(H, v, n) ==
    IF n > H.views[v].data.len THEN [H |-> H, err |-> "IndexError"]
    ELSE IF n < 0 THEN [H |-> H, err |-> "IndexError"]
    ELSE [H |-> DeleteItemsSlice(H, v, 0, n), err |-> "nil"]

\* ViewList.TrimStart: the state and the error
TrimStart(H, v, n) ==
    IF n > H.views[v].data.len THEN [H |-> H, err |-> "IndexError"]
    ELSE IF n < 0 THEN [H |-> H, err |-> "IndexError"]
    ELSE [H |-> [H EXCEPT
                   !.views[v].data = SubSlice(@, n, @.len),
                   !.views[v].items = SubSlice(@, n, @.len),
                   !.views[v].parentOffset =
                        IF H.views[v].parent # NoView THEN @ + n ELSE @],
          err |-> "nil"]

\* TrimEnd without v.items = v.items[:len(v.items)-n]
TrimEndData(H, v, n) ==
    IF n > H.views[v].data.len THEN [H |-> H, err |-> "IndexError"]
    ELSE IF n < 0 THEN [H |-> H, err |-> "IndexError"]
    ELSE [H |-> [H EXCEPT !.views[v].data = SubSlice(@, 0, @.len - n)],
          err |-> "nil"]

\* TrimEnd that takes n > len(v.data) for n = len(v.data)
TrimEndClamp(H, v, n) ==
    IF n < 0 THEN [H |-> H, err |-> "IndexError"]
    ELSE IF n > H.views[v].data.len
    THEN [H |-> [H EXCEPT !.views[v].data = SubSlice(@, 0, 0),
                          !.views[v].items = SubSlice(@, 0, 0)],
          err |-> "nil"]
    ELSE [H |-> [H EXCEPT
                   !.views[v].data = SubSlice(@, 0, @.len - n),
                   !.views[v].items = SubSlice(@, 0, @.len - n)],
          err |-> "nil"]

\* ViewList.TrimEnd: the state and the error
TrimEnd(H, v, n) ==
    IF n > H.views[v].data.len THEN [H |-> H, err |-> "IndexError"]
    ELSE IF n < 0 THEN [H |-> H, err |-> "IndexError"]
    ELSE [H |-> [H EXCEPT
                   !.views[v].data = SubSlice(@, 0, @.len - n),
                   !.views[v].items = SubSlice(@, 0, @.len - n)],
          err |-> "nil"]

\* ViewList.Disconnect
Disconnect(H, v) == [H EXCEPT !.views[v].parent = NoView]

\* ViewList.Info: the item and the error; a panic when the index is illegal
Info(H, v, i) ==
    IF i < H.views[v].items.len
    THEN IF IndexOK(H.views[v].items, i)
         THEN [item |-> Items(H, v)[i + 1], err |-> "nil", panic |-> FALSE]
         ELSE [item |-> ZeroItem, err |-> "nil", panic |-> TRUE]
    ELSE IF i = H.views[v].data.len
    THEN IF IndexOK(H.views[v].items, i - 1)
         THEN [item |-> ViewListItem(Items(H, v)[i].source, -1),
               err |-> "nil", panic |-> FALSE]
         ELSE [item |-> ZeroItem, err |-> "nil", panic |-> TRUE]
    ELSE [item |-> ZeroItem, err |-> "IndexError", panic |-> FALSE]

\* info.source, err  /  info.offset, err
SourceOf(r) == [source |-> r.item.source, err |-> r.err, panic |-> r.panic]
OffsetOf(r) == [offset |-> r.item.offset, err |-> r.err, panic |-> r.panic]

\* ViewList.Source
Source(H, v, i) == SourceOf(Info(H, v, i))

\* ViewList.Offset
Offset(H, v, i) == OffsetOf(Info(H, v, i))

\* ------------------------------------------------------------------------
\* StringList
\* ------------------------------------------------------------------------
\* unicode.IsSpace on the characters of the model
IsSpace(c) == c \in {" ", "\t", "\n", "\r"}

\* strings.TrimSpace
RECURSIVE TrimSpace(_)
TrimSpace(line) ==
    IF Len(line) = 0 THEN line
    ELSE IF IsSpace(line[1]) THEN TrimSpace(Tail(line))
    ELSE IF IsSpace(line[Len(line)])
    THEN TrimSpace(SubSeq(line, 1, Len(line) - 1))
    ELSE line

HasPrefix(line, p) == Len(p) <= Len(line) /\ SubSeq(line, 1, Len(p)) = p

\* strings.Replace(line, "", newStr, -1)
RECURSIVE ReplaceEmpty(_, _)
ReplaceEmpty(line, newStr) ==
    IF Len(line) = 0 THEN newStr
    ELSE newStr \o <<line[1]>> \o ReplaceEmpty(Tail(line), newStr)

\* strings.Replace(line, oldStr, newStr, -1)
RECURSIVE ReplaceAll(_, _, _)
ReplaceAll(line, oldStr, newStr) ==
    IF Len(oldStr) = 0 THEN ReplaceEmpty(line, newStr)
    ELSE IF Len(line) = 0 THEN line
    ELSE IF HasPrefix(line, oldStr)
    THEN newStr \o ReplaceAll(SubSeq(line, Len(oldStr) + 1, Len(line)),
                              oldStr, newStr)
    ELSE <<line[1]>> \o ReplaceAll(Tail(line), oldStr, newStr)

\* line[length:]
StrFrom(line, length) == SubSeq(line, length + 1, Len(line))

\* StringList.TrimLeft
RECURSIVE TrimLeft(_, _, _, _, _)
TrimLeft(H, v, length, start, end) ==
    IF start >= end THEN H
    ELSE IF ~IndexOK(H.views[v].data, start) THEN Panic(H)
    ELSE IF length < 0 \/ length > Len(Lines(H, v)[start + 1]) THEN Panic(H)
    ELSE TrimLeft([H EXCEPT !.data =
                      Store(@, H.views[v].data, start,
                            StrFrom(Lines(H, v)[start + 1], length))],
                  v, length, start + 1, end)

\* StringList.Replace, from line i on
RECURSIVE ReplaceFrom(_, _, _, _, _)
ReplaceFrom(H, v, i, oldStr, newStr) ==
    IF i >= H.views[v].data.len THEN H
    ELSE ReplaceFrom([H EXCEPT !.data =
                         Store(@, H.views[v].data, i,
                               ReplaceAll(Lines(H, v)[i + 1], oldStr, newStr))],
                     v, i + 1, oldStr, newStr)

\* StringList.Replace
Replace(H, v, oldStr, newStr) == ReplaceFrom(H, v, 0, oldStr, newStr)

\* the loop of StringList.GetTextBlock from index `end`: the index it stops
\* at, or the error, or a panic
RECURSIVE ScanBlock(_, _, _, _)
ScanBlock(H, v, end, flushLeft) ==
    IF ~(end < H.views[v].data.len)
    THEN [end |-> end, err |-> "nil", panic |-> FALSE]
    ELSE IF ~IndexOK(H.views[v].data, end)
    THEN [end |-> end, err |-> "nil", panic |-> TRUE]
    ELSE IF TrimSpace(Lines(H, v)[end + 1]) # EmptyText
    THEN [end |-> end, err |-> "nil", panic |-> FALSE]
    ELSE IF flushLeft /\ Len(Lines(H, v)[end + 1]) = 0
    THEN [end |-> end, err |-> "nil", panic |-> TRUE]
    ELSE IF flushLeft /\ Lines(H, v)[end + 1][1] = " "
    THEN [end |-> end, err |-> "UnexpectedIndentationError", panic |-> FALSE]
    ELSE ScanBlock(H, v, end + 1, flushLeft)

\* the end of StringList.GetTextBlock, sc the outcome of the loop:
\* result.Init(s.data[start:end], "", s.items[start:end], s.parent, s.parentOffset)
BlockOf(H, v, start, sc) ==
    IF sc.panic THEN [H |-> Panic(H), err |-> "nil"]
    ELSE IF sc.err # "nil" THEN [H |-> H, err |-> sc.err]
    ELSE IF ~SliceOK(H.views[v].data, start, sc.end)
            \/ ~SliceOK(H.views[v].items, start, sc.end)
    THEN [H |-> Panic(H), err |-> "nil"]
    ELSE [H |-> AddView(Init_(H, SubSlice(H.views[v].data, start, sc.end), "",
                              SubSlice(H.views[v].items, start, sc.end),
                              H.views[v].parent, H.views[v].parentOffset)),
          err |-> "nil"]

\* StringList.GetTextBlock: the state (the block becomes the last element
\* of views) and the error
GetTextBlock(H, v, start, flushLeft) ==
    BlockOf(H, v, start, ScanBlock(H, v, start, flushLeft))

\* ------------------------------------------------------------------------
\* The state machine: a caller working on the views
\* ------------------------------------------------------------------------
VARIABLES
    dataMem,    \* heap of []string backing arrays
    itemMem,    \* heap of []ViewListItem backing arrays
    views,      \* the ViewList objects, views[1] is the root
    panicked,   \* the program has panicked
    op,         \* the last operation called, with its arguments and results
    prev,       \* the content of the views before the last operation
    stale,      \* the views created before a change made to a view they
                \* descend from that did not come from them ("If a parent
                \* list is changed, any active child lists should be
                \* recreated")
    former,     \* the pairs <<v, a>>: a was an ancestor of v when v called
                \* Disconnect
    nops        \* number of operations called

vars == <<dataMem, itemMem, views, panicked, op, prev, stale, former, nops>>

\* the engine (statemachine.go) that runs over views[1]
VARIABLES
    sm,         \* the StateMachine object: its fields
    run,        \* the frame of StateMachine.run: its local variables and the
                \* statement it has reached
    calls,      \* the handlers invoked by the run, in order
    notified,   \* the (source, offset) pairs the observers were called with
    past        \* the runs called on the state machine, the one under way
                \* last: the initialState it was called with and, once it
                \* has ended, its handler calls and its results

evars == <<sm, run, calls, notified, past>>

\* no state machine has been built
EngineIdle ==
    /\ sm = [states |-> << >>]
    /\ run = [pc |-> "none"]
    /\ calls = << >>
    /\ notified = << >>
    /\ past = << >>

\* the State objects that the caller builds before the state machine
VARIABLES
    objs,       \* the State objects; a *State is an index into objs
    was         \* objs before the last operation called on a State

svars == <<objs, was>>

\* no State has been built
SetupIdle ==
    /\ objs = << >>
    /\ was = << >>

\* the program state as handed through the operations
Cur == [data |-> dataMem, items |-> itemMem, views |-> views,
        panic |-> panicked]

\* what a caller can observe of the views of state H: per view its lines, its
\* (source, offset) pairs, its parent and its parentOffset
Snapshot(H) ==
    [v \in 1..Len(H.views) |->
        [lines |-> Lines(H, v), items |-> Items(H, v),
         parent |-> H.views[v].parent,
         parentOffset |-> H.views[v].parentOffset]]

\* the content of the views now
Now == Snapshot(Cur)

EmptyHeap == [data |-> << >>, items |-> << >>, views |-> << >>,
              panic |-> FALSE]

\* the record of an operation: name, receiver, arguments i and j, the source
\* argument, the text and the error returned, the list handed over by value
OpRec(name, v, i, j, src, text, err, vl) ==
    [name |-> name, v |-> v, i |-> i, j |-> j, src |-> src, text |-> text,
     err |-> err, vl |-> vl]

NoList == << >>

\* v.Init(data, source, nil, nil, 0) with data the literal lit
InitLiteral(H, lit, source) ==
    Init_([H EXCEPT !.data = lit.mem], lit.s, source, NilSlice, NoView, 0)

\* data := []string{...}; v := ViewList{}; v.Init(data, source, nil, nil, 0)
NewViewList(H, lines, source) ==
    InitLiteral(H, GoLiteral(H.data, lines), source)

Prefix(seq, n) == SubSeq(seq, 1, n)

\* the lines of the list v2 built for InsertItemsSlice / Extend
ListLines(r) == Elems(r.H.data, r.view.data)

\* the parent chain of view v: v, its parent, the parent of that, ...
RECURSIVE Chain(_, _)
Chain(vs, v) ==
    IF vs[v].parent = NoView THEN {v} ELSE {v} \cup Chain(vs, vs[v].parent)

\* the operations that change only the view they are called on, the
\* operations that also change its ancestors, and the views that a call of
\* o on view o.v leaves stale: those that descend from a changed view and
\* are not changed themselves
LocalOps == {"TrimStart", "TrimEnd", "TrimLeft", "Replace", "TrimStartTwice"}
UpwardOps == {"SetItem", "DeleteItem", "DeleteItemsSlice", "InsertItem",
              "InsertItemsSlice", "Extend", "AppendItem", "Pop",
              "InsertItemPop", "TrimStartSetItem"}
Changed(o) ==
    IF o.name \in UpwardOps THEN Chain(views, o.v)
    ELSE IF o.name \in LocalOps THEN {o.v}
    ELSE {}
MadeStale(o) ==
    {w \in 1..Len(views) :
        w \notin Chain(views, o.v) /\ Chain(views, w) \cap Changed(o) # {}}

\* a view created from a stale view is stale
BornStale(H, o) ==
    IF Len(H.views) > Len(views) /\ o.v \in stale THEN {Len(H.views)} ELSE {}

\* the ancestors a view loses when it calls Disconnect
Cut(o) ==
    IF o.name = "Disconnect"
    THEN {<<o.v, a>> : a \in Chain(views, o.v) \ {o.v}}
    ELSE {}

Commit(H, o, cost) ==
    /\ dataMem' = H.data
    /\ itemMem' = H.items
    /\ views' = H.views
    /\ panicked' = H.panic
    /\ op' = o
    /\ prev' = Now
    /\ stale' = stale \cup MadeStale(o) \cup BornStale(H, o)
    /\ former' = former \cup Cut(o)
    /\ nops' = nops + cost
    /\ UNCHANGED evars
    /\ UNCHANGED svars

\* the root: views[1] of state H is the view r.view
InitRoot(r, n) ==
    /\ dataMem = r.H.data
    /\ itemMem = r.H.items
    /\ views = <<r.view>>
    /\ panicked = r.H.panic
    /\ op = OpRec("Init", 1, n, 0, RootSource, EmptyText, "nil", NoList)
    /\ prev = Snapshot([r.H EXCEPT !.views = <<r.view>>])
    /\ stale = {}
    /\ former = {}
    /\ nops = 0

Init ==
    /\ \E n \in 0..MaxLen :
           InitRoot(NewViewList(EmptyHeap, Prefix(RootLines, n), RootSource),
                    n)
    /\ EngineIdle
    /\ SetupIdle

Ready == ~panicked /\ nops < MaxOps
\* the views the caller can call an operation on
ViewIds == IF Ready THEN 1..Len(views) ELSE {}
\* the indexes a caller tries on a view: every legal one (0..hi) and one
\* beyond either end
Indexes(hi) == (-1)..(hi + 1)
\* the ranges [start, stop) a caller tries on a view of n lines: every legal
\* one, one that starts before the view, one that ends after it and one that
\* is reversed
Ranges(n) ==
    {r \in (0..n) \X (0..n) : r[1] <= r[2]}
        \cup {<<-1, 0>>, <<0, n + 1>>, <<1, 0>>}

DoGetItemsSlice(v, start, stop) ==
    /\ Ready /\ Len(views) < MaxViews
    /\ Commit(GetItemsSlice(Cur, v, start, stop),
              OpRec("GetItemsSlice", v, start, stop, "", EmptyText, "nil",
                    NoList), 0)

DoSetItem(v, index) ==
    /\ Ready
    /\ Commit(SetItem(Cur, v, index, NewLine),
              OpRec("SetItem", v, index, 0, "", NewLine, "nil", NoList), 1)

DoDeleteItem(v, index) ==
    /\ Ready
    /\ Commit(DeleteItem(Cur, v, index),
              OpRec("DeleteItem", v, index, 0, "", EmptyText, "nil", NoList),
              1)

DoDeleteItemsSlice(v, start, stop) ==
    /\ Ready
    /\ Commit(DeleteItemsSlice(Cur, v, start, stop),
              OpRec("DeleteItemsSlice", v, start, stop, "", EmptyText, "nil",
                    NoList), 1)

DoInsertItem(v, i, source) ==
    /\ Ready
    /\ Commit(InsertItem(Cur, v, i, NewLine, source, NewOffset),
              OpRec("InsertItem", v, i, 0, source, NewLine, "nil", NoList), 1)

\* v.InsertItemsSlice(i, v2) with v2 the list r just built
InsertList(r, v, i) ==
    Commit(InsertItemsSlice(r.H, v, i, r.view),
           OpRec("InsertItemsSlice", v, i, 0, "", EmptyText, "nil",
                 ListLines(r)), 1)

DoInsertItemsSlice(v, i, k) ==
    /\ Ready
    /\ InsertList(NewViewList(Cur, Prefix(OtherLines, k), OtherSource), v, i)

\* v.Extend(v2) with v2 the list r just built
ExtendList(r, v) ==
    Commit(AppendItemsSlice(r.H, v, r.view),
           OpRec("Extend", v, 0, 0, "", EmptyText, "nil", ListLines(r)), 1)

DoExtend(v, k) ==
    /\ Ready
    /\ ExtendList(NewViewList(Cur, Prefix(OtherLines, k), OtherSource), v)

DoAppendItem(v, source) ==
    /\ Ready
    /\ Commit(AppendItem(Cur, v, NewLine, source, NewOffset),
              OpRec("AppendItem", v, 0, 0, source, NewLine, "nil", NoList), 1)

\* the outcome r of an operation that returns a text
CommitText(r, name, v, i) ==
    Commit(r.H, OpRec(name, v, i, 0, "", r.result, "nil", NoList), 1)

\* the outcome r of an operation that returns an error
CommitErr(r, name, v, i, j) ==
    Commit(r.H, OpRec(name, v, i, j, "", EmptyText, r.err, NoList), 1)

DoPop(v, i) ==
    /\ Ready
    /\ CommitText(Pop(Cur, v, i), "Pop", v, i)

\* v.InsertItem(i, x, source, offset) immediately followed by v.Pop(i)
PopAfter(H, v, i) ==
    IF H.panic THEN [H |-> H, result |-> EmptyText] ELSE Pop(H, v, i)

DoInsertItemPop(v, i) ==
    /\ Ready /\ nops + 2 <= MaxOps
    /\ Commit(PopAfter(InsertItem(Cur, v, i, NewLine, NewSource, NewOffset),
                        v, i).H,
              OpRec("InsertItemPop", v, i, 0, NewSource,
                    PopAfter(InsertItem(Cur, v, i, NewLine, NewSource,
                                        NewOffset), v, i).result,
                    "nil", NoList), 2)

DoTrimStart(v, n) ==
    /\ Ready
    /\ CommitErr(TrimStart(Cur, v, n), "TrimStart", v, n, 0)

\* what a caller can observe of view v in state H
ViewOf(H, v) == Snapshot(H)[v]

\* v.TrimStart(n) followed, when it returns no error, by v.SetItem(i, x); the
\* list of the record holds what v.SetItem(i + n, x) instead of the two calls
\* makes of the parent
SetAfter(r, v, i) ==
    IF r.err # "nil" THEN r
    ELSE [H |-> SetItem(r.H, v, i, NewLine), err |-> "nil"]

DoTrimStartSetItem(v, n, i) ==
    /\ Ready /\ nops + 2 <= MaxOps
    /\ Commit(SetAfter(TrimStart(Cur, v, n), v, i).H,
              OpRec("TrimStartSetItem", v, n, i, "", NewLine,
                    TrimStart(Cur, v, n).err,
                    IF views[v].parent = NoView THEN NoList
                    ELSE <<ViewOf(SetItem(Cur, v, i + n, NewLine),
                                  views[v].parent)>>), 2)

\* v.TrimStart(a) followed, when it returns no error, by v.TrimStart(b)
TrimAfter(r, v, b) == IF r.err # "nil" THEN r ELSE TrimStart(r.H, v, b)

\* the record of the two calls; its list holds what a single
\* v.TrimStart(a + b) makes of the view
DoTrimStartTwice(v, a, b) ==
    /\ Ready /\ nops + 2 <= MaxOps
    /\ Commit(TrimAfter(TrimStart(Cur, v, a), v, b).H,
              OpRec("TrimStartTwice", v, a, b, "", EmptyText,
                    TrimAfter(TrimStart(Cur, v, a), v, b).err,
                    <<ViewOf(TrimStart(Cur, v, a + b).H, v)>>), 2)

DoTrimEnd(v, n) ==
    /\ Ready
    /\ CommitErr(TrimEnd(Cur, v, n), "TrimEnd", v, n, 0)

\* the state after a call of Info with outcome r
InfoState(H, r) == IF r.panic THEN Panic(H) ELSE H

\* v.Info(i), v.Source(i) and v.Offset(i): the record holds the item and the
\* error of Info and, in its list, the outcomes of Source and Offset
CommitInfo(r, v, i) ==
    Commit(InfoState(Cur, r),
           OpRec("Info", v, i, r.item.offset, r.item.source, EmptyText, r.err,
                 <<Source(Cur, v, i), Offset(Cur, v, i)>>), 1)

DoInfo(v, i) ==
    /\ Ready
    /\ CommitInfo(Info(Cur, v, i), v, i)

DoGetItem(v, index) ==
    /\ Ready
    /\ Commit(Cur, OpRec("GetItem", v, index, 0, "",
                         GetItem(Cur, v, index).text,
                         GetItem(Cur, v, index).err, NoList), 1)

DoDisconnect(v) ==
    /\ Ready
    /\ views[v].parent # NoView
    /\ Commit(Disconnect(Cur, v),
              OpRec("Disconnect", v, 0, 0, "", EmptyText, "nil", NoList), 1)

DoTrimLeft(v, length, start, end) ==
    /\ Ready
    /\ Commit(TrimLeft(Cur, v, length, start, end),
              OpRec("TrimLeft", v, start, end, "", EmptyText, "nil", NoList),
              1)

DoReplace(v, oldStr) ==
    /\ Ready
    /\ Commit(Replace(Cur, v, oldStr, NewLine \o NewLine),
              OpRec("Replace", v, 0, 0, "", oldStr, "nil", NoList), 1)

DoGetTextBlock(v, start, flushLeft) ==
    /\ Ready /\ Len(views) < MaxViews
    /\ CommitErr(GetTextBlock(Cur, v, start, flushLeft), "GetTextBlock", v,
                 start, IF flushLeft THEN 1 ELSE 0)

Next ==
    \/ \E v \in ViewIds : \E r \in Ranges(Length(Cur, v)) :
           DoGetItemsSlice(v, r[1], r[2])
    \/ \E v \in ViewIds : \E i \in Indexes(Length(Cur, v) - 1) :
           DoSetItem(v, i)
    \/ \E v \in ViewIds : \E i \in Indexes(Length(Cur, v) - 1) :
           DoDeleteItem(v, i)
    \/ \E v \in ViewIds : \E r \in Ranges(Length(Cur, v)) :
           DoDeleteItemsSlice(v, r[1], r[2])
    \/ \E v \in ViewIds : \E i \in Indexes(Length(Cur, v)) :
           \E src \in {NewSource, ""} : DoInsertItem(v, i, src)
    \/ \E v \in ViewIds : \E i \in Indexes(Length(Cur, v)) :
           \E k \in 0..MaxOther : DoInsertItemsSlice(v, i, k)
    \/ \E v \in ViewIds : \E k \in 0..MaxOther : DoExtend(v, k)
    \/ \E v \in ViewIds : \E src \in {NewSource, ""} : DoAppendItem(v, src)
    \/ \E v \in ViewIds : \E i \in Indexes(Length(Cur, v) - 1) : DoPop(v, i)
    \/ \E v \in ViewIds : \E i \in Indexes(Length(Cur, v)) :
           DoInsertItemPop(v, i)
    \/ \E v \in ViewIds : \E n \in Indexes(Length(Cur, v)) : DoTrimStart(v, n)
    \/ \E v \in ViewIds : \E n \in Indexes(Length(Cur, v)) : DoTrimEnd(v, n)
    \/ \E v \in ViewIds : \E n \in 0..Length(Cur, v) :
           \E i \in Indexes(Length(Cur, v) - 1) : DoTrimStartSetItem(v, n, i)
    \/ \E v \in ViewIds : \E a \in 0..Length(Cur, v) :
           \E b \in 0..Length(Cur, v) : DoTrimStartTwice(v, a, b)
    \/ \E v \in ViewIds : \E i \in Indexes(Length(Cur, v)) : DoInfo(v, i)
    \/ \E v \in ViewIds : \E i \in Indexes(Length(Cur, v) - 1) :
           DoGetItem(v, i)
    \/ \E v \in ViewIds : DoDisconnect(v)
    \/ \E v \in ViewIds : \E r \in Ranges(Length(Cur, v)) :
           DoTrimLeft(v, 1, r[1], r[2])
    \/ \E v \in ViewIds : \E o \in {<<"a">>, <<"x">>} : DoReplace(v, o)
    \/ \E v \in ViewIds : \E start \in Indexes(Length(Cur, v)) :
           \E fl \in BOOLEAN : DoGetTextBlock(v, start, fl)

Spec == Init /\ [][Next]_vars

\* ------------------------------------------------------------------------
\* The engine: StateMachine, State and Transition (statemachine.go)
\*
\* The state machine of the model is built in the package itself, as a
\* struct literal with its registry of states, and run is called on the
\* root view.  The handlers of a State are the methods bof, eof and noMatch
\* of the type State; the transition methods are functions of the caller.
\* ------------------------------------------------------------------------
\* longest input of a run
MaxInput == 2
\* most observers of a state machine
MaxObservers == 1
\* most calls of run on one state machine
MaxRuns == 2

\* a nil pointer (*State, *regexp.Regexp)
Nil == "nil"
\* the names of the registry s.states, and a name that is not in it
StateNames == {"S1", "S2"}
Unregistered == "S9"
\* the transition orders of a State
Orders == {<< >>, <<"A">>, <<"A", "B">>, <<"B", "A">>}
\* the lines of the input: matched by `a` only, by `b` only, by both, by none
InputLines == {<<"a">>, <<"b">>, <<"a", "b">>, <<"c">>}

\* regexp.FindAllString(line, -1) of a pattern that is a literal text: the
\* successive matches that do not overlap, nil (<< >>) if there is none
RECURSIVE FindAllString(_, _)
FindAllString(pattern, line) ==
    IF Len(line) < Len(pattern) THEN << >>
    ELSE IF HasPrefix(line, pattern)
    THEN <<pattern>> \o FindAllString(pattern,
                            SubSeq(line, Len(pattern) + 1, Len(line)))
    ELSE FindAllString(pattern, Tail(line))

\* type Transition struct { compiledPattern; transitionMethod; nextStateName }
Transition(pattern, method, nextState) ==
    [compiledPattern |-> pattern, transitionMethod |-> method,
     nextStateName |-> nextState]

\* type State struct: transitionOrder and transitions
State(order, transitions) ==
    [transitionOrder |-> order, transitions |-> transitions]

\* what a handler returns: (Context, string, []string)
Returned(context, nextState, result) ==
    [context |-> context, nextState |-> nextState, result |-> result]

\* the transition methods of the caller, with the signature
\* (match []string, context Context, nextState string): method A adds its
\* name to the context, method B returns the context as it is; both return
\* the next state they are given and one result
Method(method, match, context, nextState) ==
    Returned(IF method = "A" THEN Append(context, method) ELSE context,
             nextState, <<method>>)

\* State.noMatch, State.bof, State.eof
noMatch(context) == Returned(context, "", << >>)
bof(context) == Returned(context, "", << >>)
eof(context) == Returned(context, "", << >>)

\* type StateMachine struct after StateMachine.Init
StateMachine(states, initialState, observers) ==
    [inputLines |-> NoView, inputOffset |-> 0, line |-> EmptyText,
     lineOffset |-> -1, initialState |-> initialState,
     currentState |-> initialState, states |-> states,
     observers |-> observers]

\* the local variables of StateMachine.run and the statement reached
Frame(pc, context, results, result, nextState, state) ==
    [pc |-> pc, context |-> context, results |-> results, result |-> result,
     nextState |-> nextState, state |-> state]

\* StateMachine.getState: the machine, the state and the error
Lookup(m) ==
    IF m.currentState \in DOMAIN m.states
    THEN [sm |-> m, state |-> m.currentState, err |-> "nil"]
    ELSE [sm |-> m, state |-> Nil, err |-> "UnknownStateError"]
getStateStay(m, nextState) == Lookup(m)
getState(m, nextState) ==
    Lookup(IF nextState # "" THEN [m EXCEPT !.currentState = nextState]
           ELSE m)

\* StateMachine.notifyObservers: what every observer is called with, or the
\* panic of ViewList.Info
Notify(r, k) ==
    IF k = 0 THEN [panic |-> FALSE, notes |-> << >>]
    ELSE IF r.panic THEN [panic |-> TRUE, notes |-> << >>]
    ELSE [panic |-> FALSE,
          notes |-> [j \in 1..k |->
                        IF r.err = "nil"
                        THEN <<r.item.source, r.item.offset>>
                        ELSE <<"", -1>>]]
notifyObservers(H, m) ==
    Notify(Info(H, m.inputLines, m.lineOffset), m.observers)

\* StateMachine.nextLine: the machine, the error and the notifications
Load(H, m) ==
    IF m.lineOffset < Length(H, m.inputLines)
    THEN [sm |-> [m EXCEPT
                     !.line = GetItem(H, m.inputLines, m.lineOffset).text],
          err |-> "nil", note |-> notifyObservers(H, m)]
    ELSE [sm |-> [m EXCEPT !.line = EmptyText], err |-> "EOFError",
          note |-> notifyObservers(H, m)]
nextLineSkip(H, m, n) == Load(H, [m EXCEPT !.lineOffset = @ + n + 1])
nextLine(H, m, n) == Load(H, [m EXCEPT !.lineOffset = @ + n])

\* the loop of StateMachine.checkLine over the names: the first name whose
\* pattern matches the line, "" if there is none; a name that is not in
\* st.transitions yields the zero Transition, whose pattern is nil
LastMatch(st, names, line) ==
    IF \E k \in 1..Len(names) :
           FindAllString(st.transitions[names[k]].compiledPattern, line)
               # << >>
    THEN names[CHOOSE k \in 1..Len(names) :
               /\ FindAllString(st.transitions[names[k]].compiledPattern,
                                line) # << >>
               /\ \A j \in (k + 1)..Len(names) :
                      FindAllString(
                          st.transitions[names[j]].compiledPattern, line)
                          = << >>]
    ELSE ""

RECURSIVE FirstMatch(_, _, _)
FirstMatch(st, names, line) ==
    IF names = << >> THEN ""
    ELSE IF Head(names) \notin DOMAIN st.transitions THEN Nil
    ELSE IF FindAllString(st.transitions[Head(names)].compiledPattern, line)
                # << >>
    THEN Head(names)
    ELSE FirstMatch(st, Tail(names), line)

\* the handler that checkLine calls and what it returns
Handled(handler, name, ret) ==
    [panic |-> FALSE, handler |-> handler, name |-> name, ret |-> ret]
Crashed == [panic |-> TRUE, handler |-> "", name |-> "",
            ret |-> Returned(<< >>, "", << >>)]
Dispatch(st, name, line, context) ==
    IF name = Nil THEN Crashed
    ELSE IF name = "" THEN Handled("noMatch", "", noMatch(context))
    ELSE Handled("transition", name,
                 Method(st.transitions[name].transitionMethod,
                        FindAllString(st.transitions[name].compiledPattern,
                                      line),
                        context, st.transitions[name].nextStateName))

\* checkLine that hands the empty context to the handler
checkLineFresh(m, state, context) ==
    IF state = Nil THEN Crashed
    ELSE Dispatch(m.states[state],
                  FirstMatch(m.states[state],
                             m.states[state].transitionOrder, m.line),
                  m.line, << >>)

\* StateMachine.checkLine with transitions == nil: a nil state panics at
\* state.transitionOrder
checkLine(m, state, context) ==
    IF state = Nil THEN Crashed
    ELSE Dispatch(m.states[state],
                  FirstMatch(m.states[state],
                             m.states[state].transitionOrder, m.line),
                  m.line, context)

\* the record of a handler call: the handler, the transition name, the
\* state it was called on, the line offset, the context handed over and
\* what the handler returned
Call(handler, name, state, offset, context, ret) ==
    [handler |-> handler, name |-> name, state |-> state,
     offset |-> offset, context |-> context, ret |-> ret]

\* the run has panicked: the program ends
EnginePanic ==
    /\ panicked' = TRUE
    /\ UNCHANGED <<dataMem, itemMem, views, op, prev, stale, former, nops>>
    /\ UNCHANGED evars
    /\ UNCHANGED svars

\* a step of the run: the views are only read
EngineStep(m, f, cs, ns) ==
    /\ sm' = m
    /\ run' = f
    /\ calls' = cs
    /\ notified' = ns
    /\ UNCHANGED past
    /\ UNCHANGED vars
    /\ UNCHANGED svars

\* StateMachine.run up to the loop: the fields are reset, the state is
\* looked up and its bof is called
Started(g, context, initialState) ==
    /\ sm' = g.sm
    /\ run' = Frame("loop", bof(context).context, bof(context).result,
                    bof(context).result, "", g.state)
    /\ calls' = <<Call("bof", "", g.state, g.sm.lineOffset, context,
                       bof(context))>>
    /\ notified' = << >>
    /\ past' = Append(IF run.pc = "done"
                      THEN [past EXCEPT ![Len(past)].calls = calls,
                                        ![Len(past)].results = run.results]
                      ELSE past,
                      [initialState |-> initialState, calls |-> << >>,
                       results |-> << >>])
    /\ UNCHANGED vars
    /\ UNCHANGED svars

\* the fields that run sets: the input, the line offset, the current state
ResetKeep(m, initialState) ==
    [m EXCEPT !.inputLines = 1, !.inputOffset = 0]
Reset(m, initialState) ==
    [m EXCEPT !.inputLines = 1,
              !.inputOffset = 0,
              !.lineOffset = -1,
              !.currentState = IF initialState = "" THEN m.initialState
                               ELSE initialState]

\* run is called on a state machine just built, or again after a run has
\* ended
DoRun(initialState) ==
    /\ ~panicked
    /\ run.pc \in {"call", "done"}
    /\ Len(past) < MaxRuns
    /\ Started(getState(Reset(sm, initialState), ""), << >>, initialState)

\* _, err := s.nextLine(1)
Fetched(r) ==
    IF r.note.panic THEN EnginePanic
    ELSE EngineStep(r.sm,
                    [run EXCEPT !.pc = IF r.err = "nil" THEN "check"
                                       ELSE "eof",
                                !.nextState = ""],
                    calls, notified \o r.note.notes)
DoNextLine ==
    /\ ~panicked
    /\ run.pc = "loop"
    /\ Fetched(nextLine(Cur, sm, 1))

\* context, nextState, result = s.checkLine(context, state, transitions)
Checked(r) ==
    IF r.panic THEN EnginePanic
    ELSE EngineStep(sm,
                    [run EXCEPT !.pc = "append",
                                !.context = r.ret.context,
                                !.nextState = r.ret.nextState,
                                !.result = r.ret.result],
                    Append(calls, Call(r.handler, r.name, run.state,
                                       sm.lineOffset, run.context, r.ret)),
                    notified)
DoCheckLine ==
    /\ ~panicked
    /\ run.pc = "check"
    /\ Checked(checkLine(sm, run.state, run.context))

\* results = append(result, result...); state, _ = s.getState(nextState)
Switched(g) ==
    EngineStep(g.sm,
               [run EXCEPT !.pc = "loop",
                           !.results = run.result \o run.result,
                           !.state = g.state],
               calls, notified)
DoGetState ==
    /\ ~panicked
    /\ run.pc = "append"
    /\ Switched(getState(sm, run.nextState))

\* result = state.eof(context); results = append(results, result...); break
DoEof ==
    /\ ~panicked
    /\ run.pc = "eof"
    /\ EngineStep(sm,
                  [run EXCEPT !.pc = "done",
                              !.result = eof(run.context).result,
                              !.results = @ \o eof(run.context).result],
                  Append(calls, Call("eof", "", run.state, sm.lineOffset,
                                     run.context, eof(run.context))),
                  notified)

\* the registry: both states have the transitions A and B, in an order of
\* their own
Registry(o1, o2, nA, nB) ==
    [n \in StateNames |->
        State(IF n = "S1" THEN o1 ELSE o2,
              [t \in {"A", "B"} |->
                  Transition(<<IF t = "A" THEN "a" ELSE "b">>, t,
                             IF t = "A" THEN nA ELSE nB)])]

EngineInit ==
    /\ \E n \in 0..MaxInput : \E lines \in [1..n -> InputLines] :
           InitRoot(NewViewList(EmptyHeap, lines, RootSource), Len(lines))
    /\ \E o1 \in Orders : \E o2 \in Orders :
       \E nA \in {"", "S2", Unregistered} : \E nB \in {"", "S1"} :
       \E k \in 0..MaxObservers :
           sm = StateMachine(Registry(o1, o2, nA, nB), "S1", k)
    /\ run = Frame("call", << >>, << >>, << >>, "", Nil)
    /\ calls = << >>
    /\ notified = << >>
    /\ past = << >>
    /\ SetupIdle

EngineNext ==
    \/ \E initialState \in {"", "S2", Unregistered} : DoRun(initialState)
    \/ DoNextLine
    \/ DoCheckLine
    \/ DoGetState
    \/ DoEof

EngineSpec == EngineInit /\ [][EngineNext]_<<vars, evars, svars>>

\* run is one synchronous call on one thread: a step that can be taken is
\* taken
EngineLive == EngineSpec /\ WF_<<vars, evars, svars>>(EngineNext)

\* ------------------------------------------------------------------------
\* Setup: the transitions of a State, the states of a StateMachine
\*
\* The caller builds State objects as struct literals, calls the methods
\* that add and remove transitions on the first of them, builds the state
\* machine with StateMachine.Init and calls run on it.  A Go map that was
\* never made is nil: it reads as the empty map, a write to it panics.
\* ------------------------------------------------------------------------
\* number of operations called on the State before the state machine is
\* built
MaxSetup == 2

\* reflect.TypeOf(s).Name() with s a *State: a pointer type has no name
TypeName == ""

\* the zero value Transition{}
ZeroTransition == Transition(Nil, Nil, "")

\* the State literal: its patterns, its initialTransitions, and whether its
\* map transitions was made
StateLiteral(patterns, initialTransitions, made) ==
    [transitionOrder |-> << >>, transitions |-> << >>, made |-> made,
     patterns |-> patterns, initialTransitions |-> initialTransitions]

\* what a method called on State s leaves: the State, the error returned,
\* a panic
Outcome(s, err, panic) == [s |-> s, err |-> err, panic |-> panic]

\* for name, transition := range transitions { s.transitions[name] = transition }
PutAll(s, transitions) ==
    IF DOMAIN transitions = {} THEN Outcome(s, "nil", FALSE)
    ELSE IF ~s.made THEN Outcome(s, "nil", TRUE)
    ELSE Outcome([s EXCEPT !.transitions = transitions @@ @], "nil", FALSE)

\* the first loop of State.addTransitions: the error of the first name that
\* is a key of s.transitions or no key of transitions
RECURSIVE CheckNames(_, _, _)
CheckNames(s, names, transitions) ==
    IF names = << >> THEN "nil"
    ELSE IF Head(names) \in DOMAIN s.transitions
    THEN "DuplicateTransitionError"
    ELSE IF Head(names) \notin DOMAIN transitions
    THEN "UnknownTransitionError"
    ELSE CheckNames(s, Tail(names), transitions)

\* State.addTransitions
addTransitions(s, names, transitions) ==
    IF CheckNames(s, names, transitions) # "nil"
    THEN Outcome(s, CheckNames(s, names, transitions), FALSE)
    ELSE PutAll([s EXCEPT !.transitionOrder = names \o @], transitions)

\* State.addTransition
addTransition(s, name, transition) ==
    IF name \in DOMAIN s.transitions
    THEN Outcome(s, "DuplicateTransitionError", FALSE)
    ELSE PutAll([s EXCEPT !.transitionOrder = <<name>> \o @],
                name :> transition)

\* the loop of State.removeTransition: the order without its first `name`
RECURSIVE DropFirst(_, _)
DropFirst(order, name) ==
    IF order = << >> THEN << >>
    ELSE IF Head(order) = name THEN Tail(order)
    ELSE <<Head(order)>> \o DropFirst(Tail(order), name)

\* State.removeTransition
removeTransition(s, name) ==
    IF name \in DOMAIN s.transitions
    THEN Outcome([s EXCEPT !.transitions =
                               [k \in DOMAIN @ \ {name} |-> @[k]],
                           !.transitionOrder = DropFirst(@, name)],
                 "nil", FALSE)
    ELSE Outcome(s, "UnknownTransitionError", FALSE)

\* State.makeTransition: the pattern is looked up in s.patterns; the method
\* is looked up on reflect.New(reflect.TypeOf(s)), a **State, which has no
\* methods, so that the lookup fails for every name
makeTransition(s, name, nextState) ==
    IF name \notin DOMAIN s.patterns
    THEN [transition |-> ZeroTransition, err |-> "TransitionPatternNotFound"]
    ELSE [transition |-> ZeroTransition, err |-> "TransitionMethodNotFound"]

\* State.makeTransitions over a result map that was made: every pair is
\* registered with the Transition that makeTransition returned
makeTransitionsMade(s, pairs) ==
    [names |-> [k \in DOMAIN pairs |-> pairs[k].name],
     transitions |-> [n \in {pairs[k].name : k \in DOMAIN pairs} |->
                         makeTransition(s, n, "").transition],
     panic |-> FALSE, err |-> "nil"]

\* State.makeTransitions: the result `transitions` is a map that is never
\* made; the first pair is made by makeTransition, whose error is dropped,
\* and the write of its Transition to the map panics
makeTransitions(s, pairs) ==
    IF pairs = << >>
    THEN [names |-> << >>, transitions |-> << >>, panic |-> FALSE,
          err |-> "nil"]
    ELSE [names |-> << >>, transitions |-> << >>, panic |-> TRUE,
          err |-> makeTransition(s, pairs[1].name, pairs[1].nextState).err]

\* State.addInitialTransitions: the error of addTransitions is dropped
AfterMake(s, r) ==
    IF r.panic THEN Outcome(s, "nil", TRUE)
    ELSE Outcome(addTransitions(s, r.names, r.transitions).s, "nil",
                 addTransitions(s, r.names, r.transitions).panic)
addInitialTransitions(s) ==
    IF Len(s.initialTransitions) > 0
    THEN AfterMake(s, makeTransitions(s, s.initialTransitions))
    ELSE Outcome(s, "nil", FALSE)

\* State.Init
StateInit(s) == addInitialTransitions(s)

\* StateMachine.addState on the machine m with the State object s: the
\* machine, the error returned, a panic
addState(m, s) ==
    IF TypeName \in DOMAIN m.states
    THEN [m |-> m, err |-> "DuplicateStateError", panic |-> FALSE]
    ELSE IF StateInit(s).panic \/ ~m.made
    THEN [m |-> m, err |-> "nil", panic |-> TRUE]
    ELSE [m |-> [m EXCEPT !.states = (TypeName :> StateInit(s).s) @@ @],
          err |-> "nil", panic |-> FALSE]

\* StateMachine.addStates: the error of addState is dropped
RECURSIVE addStates(_, _)
addStates(m, stateClasses) ==
    IF stateClasses = << >> THEN [m |-> m, panic |-> FALSE]
    ELSE IF addState(m, Head(stateClasses)).panic
    THEN [m |-> m, panic |-> TRUE]
    ELSE addStates(addState(m, Head(stateClasses)).m, Tail(stateClasses))

\* the caller has called a method on objs[o.v]
Setup(r, o) ==
    /\ objs' = [objs EXCEPT ![o.v] = r.s]
    /\ was' = objs
    /\ op' = [o EXCEPT !.err = r.err]
    /\ panicked' = r.panic
    /\ nops' = nops + 1
    /\ UNCHANGED <<dataMem, itemMem, views, prev, stale, former>>
    /\ UNCHANGED evars

\* the state machine has not been built, no panic has happened
Building == ~panicked /\ run.pc = "none" /\ nops < MaxSetup

\* the Transition that the caller builds for `name`
Built(name) == Transition(<<IF name = "A" THEN "a" ELSE "b">>, name, "")

DoAddTransition(name) ==
    /\ Building
    /\ Setup(addTransition(objs[1], name, Built(name)),
             OpRec("addTransition", 1, 0, 0, {name}, EmptyText, "nil",
                   <<name>>))

\* s.addTransitions(names, transitions) with a map that has the keys `keys`
DoAddTransitions(names, keys) ==
    /\ Building
    /\ Setup(addTransitions(objs[1], names, [k \in keys |-> Built(k)]),
             OpRec("addTransitions", 1, 0, 0, keys, EmptyText, "nil", names))

DoRemoveTransition(name) ==
    /\ Building
    /\ Setup(removeTransition(objs[1], name),
             OpRec("removeTransition", 1, 0, 0, {name}, EmptyText, "nil",
                   <<name>>))

DoStateInit ==
    /\ Building
    /\ Setup(StateInit(objs[1]),
             OpRec("State.Init", 1, 0, 0, "", EmptyText, "nil", NoList))

\* sm.Init(stateClasses, initialState, debug): Init returns nothing
Inited(r, stateClasses, initialState) ==
    /\ sm' = IF r.panic THEN sm
             ELSE StateMachine(r.m.states, initialState, 0)
    /\ run' = IF r.panic THEN run
              ELSE Frame("call", << >>, << >>, << >>, "", Nil)
    /\ panicked' = r.panic
    /\ op' = OpRec("Init", 0, 0, 0, initialState, EmptyText, "nil",
                   stateClasses)
    /\ was' = objs
    /\ UNCHANGED <<dataMem, itemMem, views, prev, stale, former, nops>>
    /\ UNCHANGED <<calls, notified, past, objs>>
DoInit(stateClasses, initialState) ==
    /\ ~panicked
    /\ run.pc = "none"
    /\ Inited(addStates(sm, [k \in 1..Len(stateClasses) |->
                                objs[stateClasses[k]]]),
              stateClasses, initialState)

SetupInit ==
    /\ \E n \in 0..1 : \E lines \in [1..n -> InputLines] :
           InitRoot(NewViewList(EmptyHeap, lines, RootSource), Len(lines))
    /\ \E made \in BOOLEAN : sm = [states |-> << >>, made |-> made]
    /\ run = [pc |-> "none"]
    /\ calls = << >>
    /\ notified = << >>
    /\ past = << >>
    /\ \E made \in BOOLEAN : \E patterns \in {{}, {"A", "B"}} :
       \E pairs \in {<< >>, <<[name |-> "A", nextState |-> ""]>>} :
           objs = <<StateLiteral([k \in patterns |-> <<"a">>], pairs, made),
                    StateLiteral(<< >>, << >>, TRUE)>>
    /\ was = << >>

SetupNext ==
    \/ \E name \in {"A", "B"} : DoAddTransition(name)
    \/ \E names \in UNION {[1..n -> {"A", "B"}] : n \in 0..2} :
       \E keys \in SUBSET {"A", "B"} : DoAddTransitions(names, keys)
    \/ \E name \in {"A", "B"} : DoRemoveTransition(name)
    \/ DoStateInit
    \/ \E stateClasses \in {<< >>, <<1>>, <<1, 2>>, <<2, 1>>} :
       \E initialState \in {"", "S1"} : DoInit(stateClasses, initialState)
    \/ \E initialState \in {"", Unregistered} : DoRun(initialState)
    \/ DoNextLine
    \/ DoCheckLine
    \/ DoGetState
    \/ DoEof

SetupSpec == SetupInit /\ [][SetupNext]_<<vars, evars, svars>>

\* ------------------------------------------------------------------------
\* Properties
\* ------------------------------------------------------------------------
\* the last operation was `name`, called on a view of the state before it
Called(name) == op.name = name /\ op.v \in 1..Len(prev)

\* the length of view v before the last operation
PrevLen(v) == Len(prev[v].lines)

\* view v and every ancestor of it hold `text`, v at index i, the parent at
\* i + parentOffset, and so on along the parent chain
RECURSIVE HoldsUp(_, _, _, _)
HoldsUp(H, v, i, text) ==
    /\ GetItem(H, v, i) = [text |-> text, err |-> "nil"]
    /\ H.views[v].parent # NoView =>
           HoldsUp(H, H.views[v].parent, i + H.views[v].parentOffset, text)

\* the last operation was called on a linked view
Linked == prev[op.v].parent # NoView

\* the view of the last operation was created after the last direct change
\* of every view it descends from
Fresh == op.v \notin stale

\* seq without its 0-based index k, without its 0-based range [lo, hi), with
\* x put at 0-based index k, with the lines xs put at 0-based index k
RemoveLine(seq, k) == SubSeq(seq, 1, k) \o SubSeq(seq, k + 2, Len(seq))
RemoveLines(seq, lo, hi) == SubSeq(seq, 1, lo) \o SubSeq(seq, hi + 1, Len(seq))
InsertLine(seq, k, x) ==
    SubSeq(seq, 1, k) \o <<x>> \o SubSeq(seq, k + 1, Len(seq))
InsertLines(seq, k, xs) ==
    SubSeq(seq, 1, k) \o xs \o SubSeq(seq, k + 1, Len(seq))

\* the parent of the view of the last operation and the index of the parent
\* that its index i stood for, both before the operation
PrevParent == prev[op.v].parent
PrevUp(i) == i + prev[op.v].parentOffset

Mutators == {"SetItem", "DeleteItem", "DeleteItemsSlice", "InsertItem",
             "InsertItemsSlice", "Extend", "AppendItem", "Pop", "Replace",
             "TrimLeft"}

\* C2: after Disconnect on a child, a later mutating call on the child that
\* returns leaves the lines (content and length) of the former parent and of
\* its ancestors as they were.
C2_DisconnectedLeavesParent ==
    (op.name \in Mutators /\ ~panicked) =>
        \A a \in 1..Len(prev) :
            <<op.v, a>> \in former => Now[a].lines = prev[a].lines

\* C3: DeleteItem(i) with 0 <= i < length on a linked view that is not stale
\* removes exactly line i of the view and exactly line i + parentOffset of
\* the parent; DeleteItemsSlice(start, stop) removes exactly the lines
\* [start, stop) of the view and [start + parentOffset, stop + parentOffset)
\* of the parent.
C3_DeleteRemovesTranslated ==
    /\ (Called("DeleteItem") /\ Linked /\ Fresh
            /\ 0 <= op.i /\ op.i < PrevLen(op.v)) =>
           /\ ~panicked
           /\ Now[op.v].lines = RemoveLine(prev[op.v].lines, op.i)
           /\ Now[PrevParent].lines =
                  RemoveLine(prev[PrevParent].lines, PrevUp(op.i))
    /\ (Called("DeleteItemsSlice") /\ Linked /\ Fresh
            /\ 0 <= op.i /\ op.i <= op.j /\ op.j <= PrevLen(op.v)) =>
           /\ ~panicked
           /\ Now[op.v].lines = RemoveLines(prev[op.v].lines, op.i, op.j)
           /\ Now[PrevParent].lines =
                  RemoveLines(prev[PrevParent].lines, PrevUp(op.i),
                              PrevUp(op.j))

\* C4: InsertItem(i, x, src, off) with 0 <= i <= length and src not empty on
\* a linked view that is not stale puts x at index i of the view, and the
\* parent afterwards is its previous content with x inserted at
\* i + parentOffset.
C4_InsertOneLineInParent ==
    (Called("InsertItem") /\ Linked /\ Fresh /\ op.src # ""
        /\ 0 <= op.i /\ op.i <= PrevLen(op.v)) =>
        /\ ~panicked
        /\ Now[op.v].lines = InsertLine(prev[op.v].lines, op.i, op.text)
        /\ Now[PrevParent].lines =
               InsertLine(prev[PrevParent].lines, PrevUp(op.i), op.text)

\* C5: InsertItem(i, x, src, off) with 0 <= i <= length immediately followed
\* by Pop(i), on a view that is not stale, leaves the view with the lines,
\* the (source, offset) pairs and the length it had, and Pop returns x.
C5_InsertPopRoundTrip ==
    (Called("InsertItemPop") /\ Fresh
        /\ 0 <= op.i /\ op.i <= PrevLen(op.v)) =>
        /\ ~panicked
        /\ op.text = NewLine
        /\ Now[op.v].lines = prev[op.v].lines
        /\ Now[op.v].items = prev[op.v].items

\* C6: AppendItem(x, src, off) with src not empty on a linked view that is
\* not stale makes x the last line of the view, and the parent is its
\* previous content with x inserted at (length of the view before the call)
\* + parentOffset; Extend(other) adds the lines of other, in order, at that
\* position of the view and of the parent.
C6_AppendReachesParent ==
    /\ (Called("AppendItem") /\ Linked /\ Fresh /\ op.src # "") =>
           /\ ~panicked
           /\ Now[op.v].lines = Append(prev[op.v].lines, op.text)
           /\ Now[PrevParent].lines =
                  InsertLine(prev[PrevParent].lines, PrevUp(PrevLen(op.v)),
                             op.text)
    /\ (Called("Extend") /\ Linked /\ Fresh) =>
           /\ ~panicked
           /\ Now[op.v].lines = prev[op.v].lines \o op.vl
           /\ Now[PrevParent].lines =
                  InsertLines(prev[PrevParent].lines, PrevUp(PrevLen(op.v)),
                              op.vl)

\* C7: Pop(i) with 0 <= i < length on a view that is not stale returns the
\* text that was at index i, removes exactly that line from the view and, on
\* a linked view, removes exactly line i + parentOffset from the parent.
C7_PopReturnsOldText ==
    (Called("Pop") /\ Fresh /\ 0 <= op.i /\ op.i < PrevLen(op.v)) =>
        /\ ~panicked
        /\ op.text = prev[op.v].lines[op.i + 1]
        /\ Now[op.v].lines = RemoveLine(prev[op.v].lines, op.i)
        /\ Linked =>
               Now[PrevParent].lines =
                   RemoveLine(prev[PrevParent].lines, PrevUp(op.i))

\* C8: in every state of every view, root or child, the number of lines is
\* the number of (source, offset) items.
C8_DataItemsSameLength ==
    ~panicked =>
        \A v \in 1..Len(views) : views[v].data.len = views[v].items.len

\* C8 reached: three views, the last operation a change of a linked view
\* that changed its length
C8_Witness ==
    /\ ~panicked /\ Len(views) = MaxViews
    /\ op.name \in UpwardOps /\ Called(op.name) /\ Linked
    /\ Len(Now[op.v].lines) # PrevLen(op.v)

\* C9: GetItemsSlice(start, stop) with 0 <= start <= stop <= length succeeds
\* and yields a view of stop - start lines, line k with the text and the
\* (source, offset) of line start + k of the sliced view, whose parent is the
\* sliced view and whose parentOffset is start.
C9_SliceYieldsChild ==
    (Called("GetItemsSlice")
        /\ 0 <= op.i /\ op.i <= op.j /\ op.j <= PrevLen(op.v)) =>
        /\ ~panicked
        /\ Len(views) = Len(prev) + 1
        /\ Now[Len(views)] =
               [lines |-> SubSeq(prev[op.v].lines, op.i + 1, op.j),
                items |-> SubSeq(prev[op.v].items, op.i + 1, op.j),
                parent |-> op.v, parentOffset |-> op.i]

\* the lines of every ancestor of the view of the last operation are as they
\* were before it
AncestorsKept ==
    \A a \in Chain(prev, op.v) \ {op.v} : Now[a].lines = prev[a].lines

\* C10: TrimStart(n) and TrimEnd(n) with 0 <= n <= length remove exactly the
\* first / the last n lines of the view and leave the lines of every
\* ancestor as they were; TrimEnd leaves parentOffset as it was.
C10_TrimIsLocal ==
    /\ (Called("TrimStart") /\ 0 <= op.i /\ op.i <= PrevLen(op.v)) =>
           /\ ~panicked /\ op.err = "nil"
           /\ Now[op.v].lines =
                  SubSeq(prev[op.v].lines, op.i + 1, PrevLen(op.v))
           /\ Now[op.v].items =
                  SubSeq(prev[op.v].items, op.i + 1, PrevLen(op.v))
           /\ AncestorsKept
    /\ (Called("TrimEnd") /\ 0 <= op.i /\ op.i <= PrevLen(op.v)) =>
           /\ ~panicked /\ op.err = "nil"
           /\ Now[op.v].lines =
                  SubSeq(prev[op.v].lines, 1, PrevLen(op.v) - op.i)
           /\ Now[op.v].items =
                  SubSeq(prev[op.v].items, 1, PrevLen(op.v) - op.i)
           /\ Now[op.v].parentOffset = prev[op.v].parentOffset
           /\ AncestorsKept

\* C10 reached: a linked view with a parent and a grandparent trimmed by at
\* least one line and not emptied
C10_Witness ==
    /\ op.name \in {"TrimStart", "TrimEnd"} /\ Called(op.name)
    /\ 0 < op.i /\ op.i < PrevLen(op.v) /\ ~panicked
    /\ Linked /\ prev[PrevParent].parent # NoView

\* C11: TrimStart(n) on a linked view adds n to parentOffset and leaves
\* parentOffset as it was on a view without parent; on a linked view that is
\* not stale TrimStart(n) followed by SetItem(i, x) writes x at index
\* i + n + (parentOffset before the trim) of the parent and leaves the parent
\* as SetItem(i + n, x) before the trim would have left it.
C11_TrimStartKeepsParentIndex ==
    /\ (Called("TrimStart") /\ op.err = "nil") =>
           Now[op.v].parentOffset =
               prev[op.v].parentOffset + (IF Linked THEN op.i ELSE 0)
    /\ (Called("TrimStartSetItem") /\ Linked /\ Fresh
            /\ 0 <= op.i /\ 0 <= op.j /\ op.i + op.j < PrevLen(op.v)) =>
           /\ ~panicked /\ op.err = "nil"
           /\ Now[op.v].parentOffset = prev[op.v].parentOffset + op.i
           /\ Now[PrevParent].lines[PrevUp(op.i + op.j) + 1] = op.text
           /\ Now[PrevParent] = op.vl[1]

\* C11 reached: a trim by at least one line followed by SetItem on a linked
\* view that keeps at least one line
C11_Witness ==
    /\ Called("TrimStartSetItem") /\ Linked /\ Fresh
    /\ ~panicked /\ op.err = "nil" /\ op.i > 0
    /\ 0 <= op.j /\ op.i + op.j < PrevLen(op.v)

\* C12: for a, b >= 0 with a + b <= length, TrimStart(a) followed by
\* TrimStart(b) leaves the view as a single TrimStart(a + b) leaves it: the
\* lines from a + b on, with their items.
C12_TrimStartAdds ==
    (Called("TrimStartTwice") /\ 0 <= op.i /\ 0 <= op.j
        /\ op.i + op.j <= PrevLen(op.v)) =>
        /\ ~panicked /\ op.err = "nil"
        /\ Now[op.v] = op.vl[1]
        /\ Now[op.v].lines =
               SubSeq(prev[op.v].lines, op.i + op.j + 1, PrevLen(op.v))

\* C12 reached: two trims by at least one line each on a linked view
C12_Witness ==
    /\ Called("TrimStartTwice") /\ op.i > 0 /\ op.j > 0
    /\ op.i + op.j <= PrevLen(op.v) /\ Linked /\ ~panicked

\* C13: Info(i) with 0 <= i < length returns the (source, offset) stored for
\* line i, Info(length) returns (source of the last item, -1), Info(i) with
\* i > length returns IndexError; Source(i) and Offset(i) return the two
\* components of Info(i) with its error.
C13_InfoOfEveryIndex ==
    (Called("Info") /\ op.i >= 0) =>
        /\ ~panicked
        /\ op.i < PrevLen(op.v) =>
               /\ op.err = "nil"
               /\ ViewListItem(op.src, op.j) = prev[op.v].items[op.i + 1]
        /\ op.i = PrevLen(op.v) =>
               /\ op.err = "nil" /\ op.j = -1
               /\ PrevLen(op.v) > 0 =>
                      op.src = prev[op.v].items[PrevLen(op.v)].source
        /\ op.i > PrevLen(op.v) => op.err = "IndexError"
        /\ op.vl = << [source |-> op.src, err |-> op.err, panic |-> FALSE],
                      [offset |-> op.j, err |-> op.err, panic |-> FALSE] >>

\* the calls of C14 that take an index
IndexOps == {"GetItem", "SetItem", "DeleteItem", "Pop"}

\* C14: GetItem, SetItem, DeleteItem and Pop called with a negative index or
\* an index >= length return an IndexError and leave every view as it was.
C14_BadIndexIsIndexError ==
    (op.name \in IndexOps /\ Called(op.name)
        /\ (op.i < 0 \/ op.i >= PrevLen(op.v))) =>
        /\ ~panicked
        /\ op.err = "IndexError"
        /\ Now = prev

\* a line of white space only
IsBlank(line) == TrimSpace(line) = EmptyText

\* the 0-based index of the first blank line of lines at or after k, the
\* number of lines when there is none
RECURSIVE BlockEnd(_, _)
BlockEnd(lines, k) ==
    IF k >= Len(lines) THEN Len(lines)
    ELSE IF IsBlank(lines[k + 1]) THEN k
    ELSE BlockEnd(lines, k + 1)

\* the text block of lines that starts at the 0-based index start
TextBlock(lines, start) == SubSeq(lines, start + 1, BlockEnd(lines, start))

\* a line of the text block that starts at start begins with white space
Indented(lines, start) ==
    \E k \in (start + 1)..BlockEnd(lines, start) : IsSpace(lines[k][1])

\* C15: GetTextBlock(start, false) with 0 <= start <= length returns the
\* lines [start, end), end the index of the first blank line at or after
\* start or the length of the view.
C15_TextBlockEndsAtBlank ==
    (Called("GetTextBlock") /\ op.j = 0
        /\ 0 <= op.i /\ op.i <= PrevLen(op.v)) =>
        /\ ~panicked /\ op.err = "nil"
        /\ Len(views) = Len(prev) + 1
        /\ Now[Len(views)].lines = TextBlock(prev[op.v].lines, op.i)

\* C16: GetTextBlock(start, true) with 0 <= start <= length returns
\* UnexpectedIndentationError exactly when a line of the block begins with
\* white space, returns the block of GetTextBlock(start, false) otherwise and
\* fails in no other way.
C16_FlushLeftFailsOnIndentOnly ==
    (Called("GetTextBlock") /\ op.j = 1
        /\ 0 <= op.i /\ op.i <= PrevLen(op.v)) =>
        /\ ~panicked
        /\ (op.err = "UnexpectedIndentationError")
               <=> Indented(prev[op.v].lines, op.i)
        /\ op.err # "UnexpectedIndentationError" =>
               /\ op.err = "nil"
               /\ Len(views) = Len(prev) + 1
               /\ Now[Len(views)].lines = TextBlock(prev[op.v].lines, op.i)

\* ------------------------------------------------------------------------
\* Properties of the engine
\* ------------------------------------------------------------------------
\* the input line at offset k
InputLine(k) == Now[1].lines[k + 1]

\* the pattern of transition `name` of State st matches the line
Matches(st, name, line) ==
    /\ name \in DOMAIN st.transitions
    /\ FindAllString(st.transitions[name].compiledPattern, line) # << >>

\* the calls of a transition method or of noMatch: one for a fetched line
LineCalls ==
    {k \in 1..Len(calls) : calls[k].handler \in {"transition", "noMatch"}}

\* the handler of call c is the one of the first name of the order that
\* matches the line, and noMatch when no name matches
FirstOf(c, st, order, line) ==
    IF c.handler = "transition"
    THEN \E p \in 1..Len(order) :
             /\ order[p] = c.name
             /\ Matches(st, order[p], line)
             /\ \A q \in 1..(p - 1) : ~Matches(st, order[q], line)
    ELSE \A p \in 1..Len(order) : ~Matches(st, order[p], line)
FirstMatching(c) ==
    /\ c.state \in DOMAIN sm.states
    /\ FirstOf(c, sm.states[c.state], sm.states[c.state].transitionOrder,
               InputLine(c.offset))

\* the line of call c has been processed, and the transition of c proposed
\* no change of state
StayProcessed(c) ==
    /\ run.pc = "loop"
    /\ c.handler = "transition"
    /\ c.state \in DOMAIN sm.states
    /\ sm.states[c.state].transitions[c.name].nextStateName = ""

\* C17: for every fetched line the handler invoked is the one of the first
\* transition of the current State's transitionOrder whose pattern matches
\* the line, and no other handler is invoked for that line; when that
\* transition proposes no change of state, the current state is the same
\* after the line and the output holds what the handler returned.
C17_FirstMatchWins ==
    /\ \A k \in LineCalls : FirstMatching(calls[k])
    /\ \A k \in LineCalls : \A j \in LineCalls :
           calls[k].offset = calls[j].offset => k = j
    /\ (calls # << >> /\ StayProcessed(calls[Len(calls)])) =>
           /\ sm.currentState = calls[Len(calls)].state
           /\ \A e \in 1..Len(calls[Len(calls)].ret.result) :
                  \E r \in 1..Len(run.results) :
                      run.results[r] = calls[Len(calls)].ret.result[e]

\* the case of C17: transitions [A -> S2, B -> stay], a line that only the
\* pattern of B matches; B was called and the line has been processed
OnlyB(c) ==
    /\ StayProcessed(c)
    /\ c.name = "B"
    /\ sm.states[c.state].transitionOrder = <<"A", "B">>
    /\ sm.states[c.state].transitions["A"].nextStateName = "S2"
    /\ InputLine(c.offset) = <<"b">>
    /\ sm.currentState = c.state
C17_Witness ==
    /\ ~panicked
    /\ calls # << >>
    /\ OnlyB(calls[Len(calls)])
    /\ \A k \in LineCalls : calls[k].name # "A"

\* the run is over an empty view
EmptyRun == run.pc \notin {"none", "call"} /\ Len(Now[1].lines) = 0
Handlers == [k \in 1..Len(calls) |-> calls[k].handler]

\* C18: a run on an empty view invokes bof and then eof of the starting
\* State and nothing else, and the result is the output of bof followed by
\* the output of eof.
C18_EmptyRunIsBofEof ==
    EmptyRun =>
        /\ ~panicked
        /\ Handlers \in {<<"bof">>, <<"bof", "eof">>}
        /\ run.pc = "done" =>
               /\ Handlers = <<"bof", "eof">>
               /\ run.results = calls[1].ret.result \o calls[2].ret.result

\* the outputs of the handlers called, in the order of the calls
RECURSIVE Outputs(_)
Outputs(cs) ==
    IF cs = << >> THEN << >> ELSE Head(cs).ret.result \o Outputs(Tail(cs))

\* C19: the results of a run that has ended are the output of bof, then the
\* output of the handler of each line in line order, then the output of
\* eof: nothing dropped, nothing twice, nothing out of order.
C19_ResultsInOrder ==
    run.pc = "done" => run.results = Outputs(calls)

\* call k returned a next state that is neither "" nor in the registry
UnknownAt(k) ==
    /\ k \in LineCalls
    /\ calls[k].ret.nextState \notin DOMAIN sm.states \cup {""}

\* C20: when a handler returns a next state that is neither the stay value
\* nor a registered State, the run fails there: no further line is fetched,
\* no further handler (transition, noMatch, eof) is invoked and the run does
\* not end normally.
C20_UnknownStateAborts ==
    \A k \in 1..Len(calls) :
        UnknownAt(k) =>
            /\ Len(calls) = k
            /\ sm.lineOffset = calls[k].offset
            /\ run.pc \notin {"check", "eof", "done"}

\* the state that the handler call c leaves current
NextOf(c) == IF c.ret.nextState = "" THEN c.state ELSE c.ret.nextState

\* C21: after a handler has returned the name N of a registered State,
\* currentState is N and the next line fetched is searched against the
\* transitions of N only; after a handler has returned "", currentState and
\* the State used for the next line are the ones before.
C21_StateFollowsHandler ==
    \A k \in LineCalls :
        NextOf(calls[k]) \in DOMAIN sm.states =>
            /\ (k = Len(calls) /\ run.pc = "loop") =>
                   /\ sm.currentState = NextOf(calls[k])
                   /\ run.state = NextOf(calls[k])
            /\ (k + 1 \in LineCalls) =>
                   /\ calls[k + 1].state = NextOf(calls[k])
                   /\ FirstMatching(calls[k + 1])

\* a handler called in S1 returned S2, and the next line, which both
\* patterns match, went to B as the order of S2 has it, not to A as the
\* order of S1 would
C21_Witness ==
    \E k \in LineCalls :
        /\ k + 1 \in LineCalls
        /\ calls[k].state = "S1"
        /\ calls[k].ret.nextState = "S2"
        /\ sm.states["S1"].transitionOrder = <<"A">>
        /\ sm.states["S2"].transitionOrder = <<"B", "A">>
        /\ InputLine(calls[k + 1].offset) = <<"a", "b">>
        /\ calls[k + 1].name = "B"
        /\ run.pc = "loop"
        /\ sm.currentState = "S2"

\* the transitions of the registry name registered states only, and so does
\* the initial state of the run
Named ==
    /\ run.pc \notin {"none", "call"}
    /\ \A s \in DOMAIN sm.states : \A t \in DOMAIN sm.states[s].transitions :
           sm.states[s].transitions[t].nextStateName
               \in DOMAIN sm.states \cup {""}
    /\ calls[1].state \in DOMAIN sm.states

\* eof has been called at most once; when it has, it is the last call, it
\* was called on the current State at the offset past the last line, after
\* one handler call for every line, and the run has ended
EofLast ==
    \A k \in 1..Len(calls) :
        calls[k].handler = "eof" =>
            /\ k = Len(calls)
            /\ run.pc = "done"
            /\ calls[k].state = sm.currentState
            /\ calls[k].offset = Len(Now[1].lines)
            /\ {calls[j].offset : j \in LineCalls}
                   = 0..(Len(Now[1].lines) - 1)
            /\ \A j \in LineCalls : j < k

\* C22: a run whose handlers name only registered states ends, and it ends
\* only through the end of the input: eof of the State then current is
\* called once, after the handler of the last line, and no handler is
\* called after it.
C22_RunEndsThroughEof ==
    /\ [](Named => (~panicked /\ EofLast /\ (run.pc = "done" =>
                       calls[Len(calls)].handler = "eof")))
    /\ (Named ~> run.pc = "done")

\* the line fetched matches no transition of the current State
NoMatchLine ==
    /\ run.pc = "check"
    /\ run.state \in DOMAIN sm.states
    /\ \A p \in 1..Len(sm.states[run.state].transitionOrder) :
           ~Matches(sm.states[run.state],
                    sm.states[run.state].transitionOrder[p], sm.line)

\* noMatch has been called for the line and its return values are about to
\* be used
AfterNoMatch ==
    /\ run.pc = "append"
    /\ calls[Len(calls)].handler = "noMatch"

\* the step calls noMatch once, and no transition method
CallsNoMatch ==
    /\ ~panicked'
    /\ Len(calls') = Len(calls) + 1
    /\ SubSeq(calls', 1, Len(calls)) = calls
    /\ calls'[Len(calls')].handler = "noMatch"
    /\ run'.context = run.context

\* the step leaves the state and the results as they are and goes on to
\* the next line
GoesOn ==
    /\ ~panicked'
    /\ sm'.currentState = sm.currentState
    /\ run'.state = run.state
    /\ run'.context = run.context
    /\ run'.results = run.results
    /\ run'.pc = "loop"

\* C23: a line that matches no transition of the current State causes one
\* call of noMatch and no call of a transition method; the context, the
\* current state and the results are then the same as before the line, and
\* the run goes on with the next line.
C23_NoMatchIsNeutral ==
    [][(NoMatchLine => CallsNoMatch)
           /\ (AfterNoMatch => GoesOn)]_<<vars, evars, svars>>

\* what an observer is to be called with at line offset k: the (source,
\* offset) pair of line k when k is an index of the view, ("", -1) otherwise
Sighted(k) ==
    IF 0 <= k /\ k < Len(Now[1].lines)
    THEN <<Now[1].items[k + 1].source, Now[1].items[k + 1].offset>>
    ELSE <<"", -1>>

\* the run has panicked in nextLine
FetchPanicked == panicked /\ run.pc = "loop"

\* C24: after every change of the line offset of a run, the advance past
\* the last line included, every observer has been called once, with the
\* (source, offset) pair of the line at the offset when the offset is an
\* index of the view and with ("", -1) when it is not, also on an empty
\* view.
C24_ObserversSeeEveryMove ==
    run.pc \notin {"none", "call"} =>
        /\ ~FetchPanicked
        /\ Len(notified) = sm.observers * (sm.lineOffset + 1)
        /\ \A j \in 1..Len(notified) :
               notified[j] = Sighted((j - 1) \div sm.observers)

\* the state a run called with initialState o starts in
StartState(o) == IF o = "" THEN sm.initialState ELSE o

\* the run under way has just started: bof has been called, no line has
\* been fetched yet
JustStarted == run.pc = "loop" /\ Len(calls) = 1

\* C25: every run starts with the line offset -1 and with the current state
\* equal to the initialState it is called with, and to the initial state of
\* the state machine when that is "", whatever the offset and the state an
\* earlier run ended in; a second run on the same state machine, called
\* with the same view, context and initialState as the first, which ran on
\* the state machine as built, has the same handler calls and the same
\* results.
C25_RunStartsAfresh ==
    run.pc \notin {"none", "call"} =>
        /\ calls[1].handler = "bof"
        /\ calls[1].offset = -1
        /\ calls[1].state =
               IF StartState(past[Len(past)].initialState)
                      \in DOMAIN sm.states
               THEN StartState(past[Len(past)].initialState)
               ELSE Nil
        /\ JustStarted =>
               /\ sm.lineOffset = -1
               /\ sm.currentState = StartState(past[Len(past)].initialState)
        /\ (Len(past) = 2 /\ run.pc = "done"
                /\ past[1].initialState = past[2].initialState) =>
               /\ calls = past[1].calls
               /\ run.results = past[1].results

\* a second run has ended as the first did, which had ended in another
\* state than it started in and past the first line
C25_Witness ==
    /\ Len(past) = 2
    /\ run.pc = "done"
    /\ past[1].initialState = ""
    /\ past[2].initialState = ""
    /\ Len(calls) = 4
    /\ calls[2].state = "S1"
    /\ calls[3].state = "S2"
    /\ calls = past[1].calls
    /\ run.results = past[1].results

\* ------------------------------------------------------------------------
\* Properties of the setup
\* ------------------------------------------------------------------------
\* the last operation was the method `name` of the State objs[1]
CalledOn(name) == op.name = name /\ op.v = 1 /\ Len(was) > 0

\* the names of a list
Range(seq) == {seq[k] : k \in 1..Len(seq)}

\* a name of the call was registered before it
Registered == Range(op.vl) \cap DOMAIN was[1].transitions # {}

\* the call has changed neither the search order nor the transition map
SameState ==
    /\ objs[1].transitionOrder = was[1].transitionOrder
    /\ objs[1].transitions = was[1].transitions

\* the names of the call are the front of the search order, the previous
\* entries follow, and the names are keys of the transition map
AtFront ==
    /\ ~panicked
    /\ op.err = "nil"
    /\ objs[1].transitionOrder = op.vl \o was[1].transitionOrder
    /\ DOMAIN objs[1].transitions
           = DOMAIN was[1].transitions \cup Range(op.vl)
    /\ \A k \in DOMAIN was[1].transitions :
           objs[1].transitions[k] = was[1].transitions[k]

\* C26: addTransition(name, t) with a name that is not registered makes
\* name the first entry of the search order, the previous entries following
\* in their order; addTransitions(names, ts) puts names, in their order,
\* ahead of the previous entries; either call with a registered name is
\* rejected with DuplicateTransitionError and leaves the search order and
\* the transition map as they were.
C26_AddGoesToFront ==
    /\ (CalledOn("addTransition") /\ ~Registered) => AtFront
    /\ (CalledOn("addTransitions") /\ ~Registered
            /\ Range(op.vl) = op.src) => AtFront
    /\ ((CalledOn("addTransition") \/ CalledOn("addTransitions"))
            /\ Registered) =>
           /\ ~panicked
           /\ op.err # "nil"
           /\ Range(op.vl) \subseteq op.src =>
                  op.err = "DuplicateTransitionError"
           /\ SameState

\* the sequence without its entries equal to name
RECURSIVE Without(_, _)
Without(seq, name) ==
    IF seq = << >> THEN << >>
    ELSE IF Head(seq) = name THEN Without(Tail(seq), name)
    ELSE <<Head(seq)>> \o Without(Tail(seq), name)

\* C27: removeTransition(name) with a registered name takes name out of the
\* search order and out of the transition map and keeps the other entries
\* in their order; with a name that is not registered it returns
\* UnknownTransitionError and leaves the State as it was.
C27_RemoveTakesOut ==
    /\ (CalledOn("removeTransition") /\ Registered) =>
           /\ ~panicked
           /\ op.err = "nil"
           /\ objs[1].transitionOrder
                  = Without(was[1].transitionOrder, op.vl[1])
           /\ DOMAIN objs[1].transitions
                  = DOMAIN was[1].transitions \ {op.vl[1]}
           /\ \A k \in DOMAIN objs[1].transitions :
                  objs[1].transitions[k] = was[1].transitions[k]
    /\ (CalledOn("removeTransition") /\ ~Registered) =>
           /\ ~panicked
           /\ op.err = "UnknownTransitionError"
           /\ objs[1] = was[1]

\* the names of the (transitionName, nextStateName) pairs of the State s for
\* which makeTransition returns an error: no pattern, or no handler
Unbuildable(s) ==
    {s.initialTransitions[k].name : k \in
        {j \in DOMAIN s.initialTransitions :
            makeTransition(s, s.initialTransitions[j].name,
                           s.initialTransitions[j].nextState).err # "nil"}}

\* the State objects that the last call initialized: the receiver of
\* State.Init, or the States that StateMachine.Init handed to addState
\* before it ended
Initialized ==
    IF op.name = "State.Init" THEN {1}
    ELSE IF op.name = "Init" /\ op.vl # << >> THEN {op.vl[1]}
    ELSE {}

\* C28: building a State from a (transitionName, nextStateName) pair whose
\* name has no pattern in the State's pattern set, or no handler, is fatal:
\* the program ends there, the build registers no transition under that name
\* (the transitions and the search order of the State are as before), and
\* run never starts on a state machine that contains such a State.
C28_BadPairIsFatal ==
    /\ \A k \in Initialized :
           Unbuildable(was[k]) # {} =>
               /\ panicked
               /\ run.pc = "none"
               /\ objs[k].transitions = was[k].transitions
               /\ objs[k].transitionOrder = was[k].transitionOrder
    /\ run.pc # "none" =>
           \A n \in DOMAIN sm.states : Unbuildable(sm.states[n]) = {}

\* State.Init has run on a State with a pair whose name has a pattern and no
\* handler, and whose map of transitions was made
C28_Witness ==
    /\ op.name = "State.Init"
    /\ was[1].made
    /\ "A" \in DOMAIN was[1].patterns
    /\ "A" \in Unbuildable(was[1])
    /\ "A" \notin DOMAIN objs[1].transitions

\* StateMachine.Init was called with two State objects and the first was
\* registered: the second was added under a name that is registered
Collided == op.name = "Init" /\ Len(op.vl) = 2 /\ DOMAIN sm.states # {}

\* C29: adding a State under a name that is already registered fails with
\* DuplicateStateError, the error reaches the caller of the construction and
\* run does not start, and the State registered first under that name stays
\* registered unchanged.
C29_DuplicateStateIsFatal ==
    Collided =>
        /\ addState(sm, objs[op.vl[2]]).err = "DuplicateStateError"
        /\ op.err = "DuplicateStateError"
        /\ run.pc = "call"
        /\ DOMAIN sm.states = {TypeName}
        /\ sm.states[TypeName] = was[op.vl[1]]

\* the mutations of C30 and the views that were children of the view of the
\* last operation before it
ParentMutations == {"SetItem", "DeleteItem", "InsertItem", "AppendItem",
                    "Replace"}
ChildrenBefore == {w \in 1..Len(prev) : prev[w].parent = op.v}

\* C30: a mutation called on a parent view (SetItem, DeleteItem, InsertItem,
\* AppendItem, Replace) that returns leaves the lines, content and length,
\* of every child view created from it earlier as they were.
C30_ChildKeepsItsLines ==
    (op.name \in ParentMutations /\ Called(op.name) /\ ~panicked) =>
        \A w \in ChildrenBefore : Now[w].lines = prev[w].lines

\* the (source, offset) pairs of every view are as they were before the last
\* operation
ItemsKept == \A a \in 1..Len(prev) : Now[a].items = prev[a].items

\* C31: Replace(oldStr, newStr) and TrimLeft(length, start, end) that return
\* change only the texts of the view they are called on (Replace every line,
\* TrimLeft the lines [start, end), which lose their first `length`
\* characters); the texts of the parent and of every ancestor and all
\* (source, offset) pairs are as before.
C31_TextEditsAreLocal ==
    /\ (Called("Replace") /\ ~panicked) =>
           /\ Now[op.v].lines =
                  [k \in 1..PrevLen(op.v) |->
                      ReplaceAll(prev[op.v].lines[k], op.text,
                                 NewLine \o NewLine)]
           /\ AncestorsKept
           /\ ItemsKept
    /\ (Called("TrimLeft") /\ ~panicked) =>
           /\ Now[op.v].lines =
                  [k \in 1..PrevLen(op.v) |->
                      IF op.i < k /\ k <= op.j
                      THEN StrFrom(prev[op.v].lines[k], 1)
                      ELSE prev[op.v].lines[k]]
           /\ AncestorsKept
           /\ ItemsKept

\* the last operation was TrimStart(n) or TrimEnd(n), n = op.i
Trimmed == op.name \in {"TrimStart", "TrimEnd"} /\ Called(op.name)

\* C32: TrimStart(n) and TrimEnd(n) return an IndexError when n < 0 or
\* n > length, and then the lines, the items and the parentOffset of the
\* view (and of every other view) are as before; they return no error for
\* every 0 <= n <= length and leave length - n lines, none for n = length.
C32_TrimChecksItsSize ==
    Trimmed =>
        /\ ~panicked
        /\ (op.i < 0 \/ op.i > PrevLen(op.v)) =>
               (op.err = "IndexError" /\ Now = prev)
        /\ (0 <= op.i /\ op.i <= PrevLen(op.v)) =>
               /\ op.err = "nil"
               /\ Len(Now[op.v].lines) = PrevLen(op.v) - op.i
               /\ Len(Now[op.v].items) = PrevLen(op.v) - op.i

\* TrimEnd(n) with n = length + 1 on a view that has lines was rejected
C32_Witness ==
    /\ Called("TrimEnd") /\ PrevLen(op.v) > 0 /\ op.i = PrevLen(op.v) + 1
    /\ op.err = "IndexError"

\* C33: InsertItem with the empty source fails at once, before any change:
\* the call panics, and the lines, the items and the lengths of the view
\* and of every view of its parent chain are as before the call.
C33_EmptySourceFailsFast ==
    (Called("InsertItem") /\ op.src = "") =>
        /\ panicked
        /\ \A a \in Chain(prev, op.v) :
               Now[a].lines = prev[a].lines /\ Now[a].items = prev[a].items

\* InsertItem with the empty source was called at a legal index of a linked
\* view that has lines
C33_Witness ==
    /\ Called("InsertItem") /\ op.src = ""
    /\ Linked /\ 0 <= op.i /\ op.i < PrevLen(op.v)
    /\ panicked

\* C34: when run has returned, the list of observers of the state machine
\* is empty, and no observer is notified during a later run (the package
\* has no call that registers an observer between the runs).
C34_ObserversCleared ==
    /\ run.pc = "done" => sm.observers = 0
    /\ Len(past) >= 2 => notified = << >>

\* what the handler of the call c returns for the context ctx: method A adds
\* its name to the context, every other handler returns the context as it is
ContextFrom(c, ctx) ==
    IF c.handler = "transition" /\ c.name = "A" THEN Append(ctx, "A")
    ELSE ctx

\* C35: the context given to each handler of a run is the context returned
\* by the handler called before it: bof is called with the initial context,
\* the handler of the first line with what bof returned, the handler of each
\* later line with what the handler of the line before returned, and eof
\* with what the handler of the last line returned.
C35_ContextIsThreaded ==
    /\ Len(calls) >= 1 =>
           /\ calls[1].handler = "bof"
           /\ calls[1].context = << >>
           /\ calls[1].ret.context = << >>
    /\ \A k \in 2..Len(calls) :
           /\ calls[k].context = calls[k - 1].ret.context
           /\ calls[k].handler # "eof" =>
                  calls[k].ret.context
                      = ContextFrom(calls[k], calls[k - 1].ret.context)

\* a run over two lines that method A handled has ended: eof was called
\* with the context that holds both calls of A
C35_Witness ==
    /\ run.pc = "done"
    /\ Len(calls) = 4
    /\ calls[4].handler = "eof"
    /\ calls[4].context = <<"A", "A">>

\* the lines the caller stores and the (source, offset) each is stored with:
\* the lines of the root, the lines of the list handed to InsertItemsSlice
\* and Extend, and the line of InsertItem and AppendItem
Stored ==
    {<<RootLines[k], ViewListItem(RootSource, k - 1)>> :
        k \in 1..Len(RootLines)}
    \cup {<<OtherLines[k], ViewListItem(OtherSource, k - 1)>> :
              k \in 1..Len(OtherLines)}
    \cup {<<NewLine, ViewListItem(s, NewOffset)>> : s \in {NewSource, ""}}

\* in the snapshot S, item k of view v is what line k was stored with
PairedIn(S, v) ==
    /\ Len(S[v].lines) = Len(S[v].items)
    /\ \A k \in 1..Len(S[v].lines) :
           <<S[v].lines[k], S[v].items[k]>> \in Stored

\* the last operation was one of the calls of C36 with legal arguments, it
\* returned, and before it every view had its lines paired with their items
LegalCall ==
    \/ op.name \in {"DeleteItem", "Pop"}
           /\ 0 <= op.i /\ op.i < PrevLen(op.v)
    \/ op.name = "DeleteItemsSlice"
           /\ 0 <= op.i /\ op.i <= op.j /\ op.j <= PrevLen(op.v)
    \/ op.name \in {"TrimStart", "TrimEnd", "InsertItem", "InsertItemsSlice"}
           /\ 0 <= op.i /\ op.i <= PrevLen(op.v)
    \/ op.name \in {"AppendItem", "Extend"}
PairedStep ==
    /\ Called(op.name) /\ LegalCall /\ ~panicked
    /\ \A v \in 1..Len(prev) : PairedIn(prev, v)

\* C36: a root built from n lines with source s carries (s, k) for line k,
\* and after DeleteItem, DeleteItemsSlice, Pop, TrimStart, TrimEnd,
\* InsertItem, InsertItemsSlice, Extend or AppendItem with legal arguments
\* on views whose items were the provenance of their lines, item k of the
\* view and of each of its ancestors is still what line k was stored with.
C36_ItemsFollowLines ==
    /\ op.name = "Init" =>
           Now[1].items = [k \in 1..Len(Now[1].lines) |->
                              ViewListItem(RootSource, k - 1)]
    /\ PairedStep => \A a \in Chain(prev, op.v) : PairedIn(Now, a)

\* the items of the list handed to InsertItemsSlice, whose lines are op.vl
OtherItems == [k \in 1..Len(op.vl) |-> ViewListItem(OtherSource, k - 1)]

\* C37: InsertItemsSlice(i, other) with 0 <= i <= length returns and turns
\* the view into lines[0..i) ++ other ++ lines[i..), its items likewise; on
\* a linked view the lines of other are inserted into the parent at
\* i + parentOffset; with an empty other, also on an empty linked view, the
\* call returns and changes no view.
C37_InsertRangeSplices ==
    (Called("InsertItemsSlice") /\ 0 <= op.i /\ op.i <= PrevLen(op.v)) =>
        /\ ~panicked
        /\ Now[op.v].lines = InsertLines(prev[op.v].lines, op.i, op.vl)
        /\ Now[op.v].items = InsertLines(prev[op.v].items, op.i, OtherItems)
        /\ Linked =>
               Now[PrevParent].lines
                   = InsertLines(prev[PrevParent].lines, PrevUp(op.i), op.vl)
        /\ op.vl = << >> => Now = prev

\* C38: on a linked view, the index that InsertItem(i) with 0 <= i <= length
\* computes for the parent from the length after the insert,
\* ((length + 1 + i) mod (length + 1)) + parentOffset, is i + parentOffset,
\* and the index that Pop(i) with 0 <= i < length computes from the length
\* before the removal, ((length + i) mod length) + parentOffset, is
\* i + parentOffset.
C38_ModuloKeepsIndex ==
    /\ (Called("InsertItem") /\ Linked /\ op.src # ""
            /\ 0 <= op.i /\ op.i <= PrevLen(op.v)) =>
           WrapIndex(PrevLen(op.v) + 1, op.i) + prev[op.v].parentOffset
               = PrevUp(op.i)
    /\ (Called("Pop") /\ Linked /\ 0 <= op.i /\ op.i < PrevLen(op.v)) =>
           WrapIndex(PrevLen(op.v), op.i) + prev[op.v].parentOffset
               = PrevUp(op.i)

\* InsertItem was called at the end of a linked view that has lines and a
\* parentOffset that is not 0
C38_Witness ==
    /\ Called("InsertItem") /\ Linked /\ op.src # ""
    /\ PrevLen(op.v) >= 1 /\ op.i = PrevLen(op.v)
    /\ prev[op.v].parentOffset > 0

\* C39: throughout a run the line offset stays within -1 .. length of the
\* view; it advances by one per iteration of the loop, so that the k-th
\* line handler of the run is called at offset k - 1 on line k - 1 of the
\* view, and when the run has ended the offset is the length of the view
\* and every line has had its handler once.
C39_OffsetWalksTheView ==
    /\ -1 <= sm.lineOffset /\ sm.lineOffset <= Len(Now[1].lines)
    /\ \A k \in 2..Len(calls) :
           calls[k].handler # "eof" => calls[k].offset = k - 2
    /\ run.pc = "check" =>
           /\ sm.lineOffset = Len(calls) - 1
           /\ sm.line = Now[1].lines[sm.lineOffset + 1]
    /\ run.pc = "done" =>
           /\ sm.lineOffset = Len(Now[1].lines)
           /\ Len(calls) = Len(Now[1].lines) + 2
           /\ calls[Len(calls)].handler = "eof"

\* a run over two lines has ended
C39_Witness ==
    /\ run.pc = "done"
    /\ Len(Now[1].lines) = 2
    /\ sm.lineOffset = 2
    /\ Len(calls) = 4

\* the search order of State s has no name twice and its names are the keys
\* of the transition map
Consistent(s) ==
    /\ \A j \in 1..Len(s.transitionOrder) :
       \A k \in 1..Len(s.transitionOrder) :
           s.transitionOrder[j] = s.transitionOrder[k] => j = k
    /\ Range(s.transitionOrder) = DOMAIN s.transitions

\* C40: after any sequence of addTransitions, addTransition and
\* removeTransition calls on a State, accepted or rejected, transitionOrder
\* holds no name twice and its names are the keys of the transition map
\* (after calls that returned: a panic ends the program).
C40_OrderMatchesMap ==
    ~panicked => \A k \in 1..Len(objs) : Consistent(objs[k])

====
